---- MODULE Spec2Model ----
(***************************************************************************)
(* Model of the Eway Home Assistant integration (custom_components/eway).  *)
(*                                                                         *)
(* Part 1, the WebSocket session: EwayWebSocketClient together with the    *)
(* coordinator code that drives it (scheduled refresh, user command,       *)
(* shutdown) and the inbound-read tasks the client starts.                 *)
(*                                                                         *)
(* asyncio is cooperative: a coroutine runs without interruption from one  *)
(* await to the next.  Every process has a position pc[p].  A position at  *)
(* which the coroutine is suspended in an await is a waiting position; a   *)
(* position between two pieces of synchronous code (a call that has just   *)
(* returned, a call about to be made) is a running position, and while a   *)
(* process is at a running position no other process and no event of the   *)
(* environment may take a step.                                            *)
(***************************************************************************)
EXTENDS Integers, Sequences, FiniteSets, TLC

\* Number of sockets the device accepts over the life of the session; every
\* successful connect() opens one socket and creates one read task, so this
\* also bounds the number of read tasks.
MaxSockets == 2

\* websocket_client.py:46
max_reconnect_attempts == 10

\* coordinator.py:1280, for _ in range(50)
PollLimit == 50

\* Bound on the number of frames a device sends.
MaxFrames == 2

\* Bound on the number of refreshes of the CT coordinator.
MaxRefreshes == 5

\* Bound on the number of segments of a topic.
MaxTopicLen == 4

\* Bound on the length of the payload array of a status message.
MaxAcks == 3

\* Bound on the length of a device id or serial number made of single characters.
MaxIdLen == 2

\* Number of sockets the model can tell apart; MaxSockets of them can be opened
\* in the specifications of the whole session, all of them in SpecShutdown.
SocketSlots == 3

Sockets == 1..SocketSlots
\* The read task created by the connect() that opened socket i is task i.
Tasks == 1..SocketSlots
Refresh == SocketSlots + 1
Shutdown == SocketSlots + 2
Command == SocketSlots + 3
Procs == 1..(SocketSlots + 3)

VARIABLES
    family,              \* "charger" (EwayChargerCoordinator) or "storage" (EwayStorageCoordinator)
    device_id,           \* EwayWebSocketClient._device_id
    device_sn,           \* EwayWebSocketClient._device_sn
    hasClient,           \* coordinator._client is not None
    websocket,           \* EwayWebSocketClient._websocket: 0 is None, else a socket
    listen_task,         \* EwayWebSocketClient._listen_task: 0 is None, else a task
    connected,           \* EwayWebSocketClient._connected
    reconnect_attempts,  \* EwayWebSocketClient._reconnect_attempts
    socks,               \* state of every socket: "unopened", "open", closed by the peer
                         \* ("closed_ok" cleanly, "closed_err" abnormally) or by
                         \* disconnect() ("closed_local")
    lock,                \* coordinator._connection_lock: 0 is free, else the holder
    pc,                  \* position of every process
    cctx,                \* call site of the connect() a process is in
    sctx,                \* call site of the send_message() a process is in
    psock,               \* the socket object the pending await of a process refers to
    awaited,             \* the task a disconnect() is awaiting
    exc,                 \* the exception a process is raising
    cancelReq,           \* Task.cancel() was called and CancelledError is not yet delivered
    storage_info_response, \* EwayStorageCoordinator._storage_info_response is truthy
    polls,               \* iterations done of the wait loop of async_get_storage_info
    info_fresh,          \* the stored answer arrived during the call of async_get_storage_info in hand
    writes,              \* parity of the number of frames written to sockets
    sent,                \* per process: what its current connect() call has sent
    bgFails,             \* failed background reconnects since the last successful connect()
    quiet,               \* disconnect() has returned and no socket was opened since
    released,            \* disconnect() has returned and no caller outside the client has
                         \* invoked connect() since
    late_delivery,       \* a frame reached the router callback while quiet
    device_data,         \* coordinator._device_data: per key, the number of the frame its
                         \* value was extracted from (0: the key is absent)
    data,                \* coordinator.data, the snapshot published to the entities
                         \* (-1: the value was written by an entity)
    frames,              \* number of frames received
    last_frame,          \* the frame received last
    outcome,             \* what became of it: "routed", "undecodable" or "raised"
    notified,            \* number of calls of async_set_updated_data it caused
    dropped,             \* number of frames dropped so far
    charging_status,     \* the value under "charging_status" in _device_data (dd) and in coordinator.data (pub)
    ct_device_data,      \* EwayCTCoordinator._device_data: the number of the status response
                         \* its measurements are from (0: the dict is empty) and its
                         \* "anti_backflow"
    ct_data,             \* EwayCTCoordinator.data: None or a dict, described in the same way
    ct_alias,            \* data is the very dict _device_data
    ct_connected,        \* EwayCTCoordinator._connected
    ct_connection_retries,
    ct_initial_connection_attempts,
    ct_refreshes,        \* number of refreshes so far
    ct_latest,           \* the status response and the anti-backflow value received last
    ct_config_fetch_scheduled, \* EwayCTCoordinator._config_fetch_scheduled
    ct_fetch,            \* the configuration fetch: "idle", "timer" (call_later pending) or
                         \* "running" (the task awaits the request)
    ct_fetches,          \* number of configuration requests issued so far
    ct_pending,          \* configuration fetches scheduled or running
    ct_set,              \* the async_set_anti_backflow call that has just returned, if any
    ct_result,           \* how the last refresh ended: "data", "stale" or "UpdateFailed"
    ct_streak,           \* consecutive non-2xx refreshes, the first one met while connected
    plug_connected,      \* EwaySmartPlugCoordinator._connected
    plug_connection_retries, \* EwaySmartPlugCoordinator._connection_retries
    plug_refreshes,      \* number of refreshes of the smart plug so far
    plug_result,         \* how the last refresh of the smart plug ended: "data" or "UpdateFailed"
    topic,               \* the topic of an envelope, as the sequence of its segments
    matched,             \* the suffixes of the routers that the topic ends with
    handler,             \* per router, the position in its if/elif chain of the branch taken
                         \* (0: none, -1: the envelope was not dispatched yet)
    arg,                 \* the message a handler is applied to, with what it finds stored
    res                  \* what the handler has stored, once it was applied

cfgVars == <<family, device_id, device_sn>>
clientVars == <<websocket, listen_task, connected, reconnect_attempts>>
procVars == <<pc, cctx, sctx, psock, awaited, exc, cancelReq>>
storageVars == <<storage_info_response, polls, info_fresh>>
ghostVars == <<writes, sent, bgFails, quiet, released, late_delivery>>
routerVars == <<device_data, data, frames, last_frame, outcome, notified, dropped,
               charging_status>>
topicVars == <<topic, matched, handler>>
fnVars == <<arg, res>>
plugVars == <<plug_connected, plug_connection_retries, plug_refreshes, plug_result>>
ctVars == <<ct_device_data, ct_data, ct_alias, ct_connected, ct_connection_retries,
           ct_initial_connection_attempts, ct_refreshes, ct_latest,
           ct_config_fetch_scheduled, ct_fetch, ct_fetches, ct_pending, ct_result,
           ct_streak, ct_set>>
vars == <<family, device_id, device_sn, hasClient, websocket, listen_task, connected,
          reconnect_attempts, socks, lock, pc, cctx, sctx, psock, awaited, exc,
          cancelReq, storage_info_response, polls, info_fresh, writes, sent, bgFails,
          quiet, released, late_delivery, device_data, data, frames, last_frame, outcome,
          notified, dropped, charging_status, ct_device_data, ct_data, ct_alias, ct_connected,
          ct_connection_retries, ct_initial_connection_attempts, ct_refreshes, ct_latest,
          ct_config_fetch_scheduled, ct_fetch, ct_fetches, ct_pending, ct_result,
          ct_streak, ct_set, plug_connected, plug_connection_retries, plug_refreshes,
          plug_result, topic, matched, handler, arg, res>>

FrameKinds == {"info", "other", "undecodable", "callback_raises"}
OpenFailures == {"TimeoutError", "OSError", "InvalidHandshake"}

\* Positions at which a coroutine is running (not suspended in an await).
Running == {"c_ok", "c_raise", "d_ret", "ping_true", "ping_false", "sm_call",
            "sm_ok", "sm_raise", "r_ping", "r_request", "g_info",
            "r_ok", "r_update_failed", "r_raised", "cmd_ok", "cmd_raised"}

\* Process p may take a step: nobody else is in the middle of synchronous code.
Turn(p) == \A q \in Procs \ {p} : pc[q] \notin Running

\* An event of the environment may happen: the event loop is idle.
LoopIdle == \A q \in Procs : pc[q] \notin Running

\* The next resumption of p throws CancelledError into it.
Cancelling(p) == p \in Tasks /\ cancelReq[p]

NumSockets == Cardinality({s \in Sockets : socks[s] # "unopened"})

IdentityComplete == device_id # "" /\ device_sn # ""

\* The keys the coordinators write in _device_data: the named sub-objects and
\* the keys of the raw envelope.
Keys == {"device_info", "charging_status", "charging_mode", "charging_mode_display",
         "max_current", "password_reset_response", "screen_password_reset",
         "nfc_enabled", "nfc_control_response", "nfc_card_add_response",
         "nfc_card_delete_response", "charging_control_response",
         "device_error_response", "last_charging_session", "device_status",
         "device_status_responses", "charging_mode_response",
         "charging_current_response", "nfc_status_response", "charging_realtime",
         "storage_info", "storage_mini", "topic", "payload"}

\* _device_data = {} and, for coordinator.data, no key either.
NoData == [k \in Keys |-> 0]

\* Neither dict has the key "charging_status".
NoChargingStatus == [dd |-> "none", pub |-> "none"]

\* No frame was received yet.
NoFrame == [shape |-> "none", items |-> <<>>]

\* The session right after the coordinator and its client were constructed.
\* EwayCTCoordinator.__init__: _device_data is {}, data is None.
CTInit ==
    /\ ct_device_data = [status |-> 0, ab |-> "none"]
    /\ ct_data = [kind |-> "None", status |-> 0, ab |-> "none"]
    /\ ct_alias = FALSE
    /\ ct_connected = FALSE
    /\ ct_connection_retries = 0
    /\ ct_initial_connection_attempts = 0
    /\ ct_refreshes = 0
    /\ ct_latest = [status |-> 0, ab |-> "none"]
    /\ ct_config_fetch_scheduled = FALSE
    /\ ct_fetch = "idle"
    /\ ct_fetches = 0
    /\ ct_pending = 0
    /\ ct_set = [called |-> FALSE]
    /\ ct_result = "none"
    /\ ct_streak = 0

\* EwaySmartPlugCoordinator.__init__.
PlugInit ==
    /\ plug_connected = FALSE
    /\ plug_connection_retries = 0
    /\ plug_refreshes = 0
    /\ plug_result = "none"

\* No envelope was dispatched yet.
Undispatched ==
    /\ matched = {}
    /\ handler = [charger |-> -1, storage |-> -1]

TopicInit ==
    /\ topic = <<>>
    /\ Undispatched

\* No handler was applied yet.
Unapplied == [applied |-> FALSE]

FnInit ==
    /\ arg = <<>>
    /\ res = Unapplied

SessionInit ==
    /\ CTInit
    /\ PlugInit
    /\ TopicInit
    /\ FnInit
    /\ hasClient = TRUE
    /\ websocket = 0
    /\ listen_task = 0
    /\ connected = FALSE
    /\ reconnect_attempts = 0
    /\ socks = [s \in Sockets |-> "unopened"]
    /\ lock = 0
    /\ pc = [p \in Procs |-> IF p \in Tasks THEN "none" ELSE "idle"]
    /\ cctx = [p \in Procs |-> "none"]
    /\ sctx = [p \in Procs |-> "none"]
    /\ psock = [p \in Procs |-> 0]
    /\ awaited = [p \in Procs |-> 0]
    /\ exc = [p \in Procs |-> "none"]
    /\ cancelReq = [t \in Tasks |-> FALSE]
    /\ storage_info_response = FALSE
    /\ polls = 0
    /\ info_fresh = FALSE
    /\ writes = 0
    /\ device_data = NoData
    /\ data = NoData
    /\ frames = 0
    /\ last_frame = NoFrame
    /\ outcome = "none"
    /\ notified = 0
    /\ dropped = 0
    /\ charging_status = NoChargingStatus
    /\ sent = [p \in Procs |-> <<>>]
    /\ bgFails = 0
    /\ quiet = FALSE
    /\ released = FALSE
    /\ late_delivery = FALSE

\* EwayChargerCoordinator.__init__ with host and port: device_id and device_sn
\* default to "".
Init ==
    /\ family = "charger"
    /\ device_id \in {"", "ABC"}
    /\ device_sn \in {"", "123"}
    /\ SessionInit

\* EwayStorageCoordinator.__init__: no device_id; here without a serial number.
InitStorage ==
    /\ family = "storage"
    /\ device_id = ""
    /\ device_sn = ""
    /\ SessionInit

\* EwayStorageCoordinator.__init__ with a serial number.
InitStorageInfo ==
    /\ family = "storage"
    /\ device_id = ""
    /\ device_sn = "123"
    /\ SessionInit


(***************************************************************************)
(* EwayWebSocketClient                                                     *)
(***************************************************************************)

\* connect(), from the call to the await of websockets.connect: nothing of the
\* session changes, the caller is suspended.
connect(p, site) ==
    /\ pc' = [pc EXCEPT ![p] = "c_open"]
    /\ cctx' = [cctx EXCEPT ![p] = site]
    /\ sent' = [sent EXCEPT ![p] = <<>>]

\* connect() as it would be without line 74: the socket opens and the counter
\* of reconnect attempts is left as it was.
ConnectOpenedKeepsCounter(p) ==
    /\ pc[p] = "c_open" /\ Turn(p) /\ ~Cancelling(p)
    /\ NumSockets < MaxSockets
    /\ LET s == NumSockets + 1 IN
        /\ socks' = [socks EXCEPT ![s] = "open"]
        /\ websocket' = s
        /\ connected' = TRUE
        /\ reconnect_attempts' = reconnect_attempts
        /\ listen_task' = s
        /\ IF IdentityComplete
             THEN /\ pc' = [pc EXCEPT ![s] = "t_new", ![p] = "sm_call"]
                  /\ sctx' = [sctx EXCEPT ![p] = "c_info"]
             ELSE /\ pc' = [pc EXCEPT ![s] = "t_new", ![p] = "c_ok"]
                  /\ sctx' = sctx
    /\ bgFails' = 0
    /\ quiet' = FALSE
    /\ released' = (released /\ p \in Tasks)
    /\ UNCHANGED <<cfgVars, fnVars, ctVars, plugVars, topicVars, routerVars, hasClient, lock, cctx, psock, awaited, exc, cancelReq,
                   storageVars, writes, sent, late_delivery>>

\* connect(): the socket opened.  The session is marked connected, the counter
\* is reset, a read task is created, and with a complete identity the call goes
\* on to get_device_info(), which builds its message and calls send_message().
\* The device accepts no more than limit sockets.
ConnectOpenedUpTo(p, limit) ==
    /\ pc[p] = "c_open" /\ Turn(p) /\ ~Cancelling(p)
    /\ NumSockets < limit
    /\ LET s == NumSockets + 1 IN
        /\ socks' = [socks EXCEPT ![s] = "open"]
        /\ websocket' = s
        /\ connected' = TRUE
        /\ reconnect_attempts' = 0
        /\ listen_task' = s
        /\ IF IdentityComplete
             THEN /\ pc' = [pc EXCEPT ![s] = "t_new", ![p] = "sm_call"]
                  /\ sctx' = [sctx EXCEPT ![p] = "c_info"]
             ELSE /\ pc' = [pc EXCEPT ![s] = "t_new", ![p] = "c_ok"]
                  /\ sctx' = sctx
    /\ bgFails' = 0
    /\ quiet' = FALSE
    /\ released' = (released /\ p \in Tasks)
    /\ UNCHANGED <<cfgVars, fnVars, ctVars, plugVars, topicVars, routerVars, hasClient, lock, cctx, psock, awaited, exc, cancelReq,
                   storageVars, writes, sent, late_delivery>>

\* connect() as it would be without line 95: the failure is raised again and
\* the connected flag is left as it was.
ConnectFailedKeepsFlag(p) ==
    /\ pc[p] = "c_open" /\ Turn(p) /\ ~Cancelling(p)
    /\ \E kind \in OpenFailures :
        /\ exc' = [exc EXCEPT ![p] = kind]
        /\ pc' = [pc EXCEPT ![p] = "c_raise"]
    /\ connected' = connected
    /\ released' = (released /\ p \in Tasks)
    /\ UNCHANGED <<cfgVars, fnVars, ctVars, plugVars, topicVars, routerVars, hasClient, websocket, listen_task, reconnect_attempts,
                   socks, lock, cctx, sctx, psock, awaited, cancelReq, storageVars,
                   writes, sent, bgFails, quiet, late_delivery>>

\* connect(): opening the socket failed (timeout, refusal, handshake error).
\* The except clause marks the session disconnected and raises again.
ConnectFailed(p) ==
    /\ pc[p] = "c_open" /\ Turn(p) /\ ~Cancelling(p)
    /\ \E kind \in OpenFailures :
        /\ exc' = [exc EXCEPT ![p] = kind]
        /\ pc' = [pc EXCEPT ![p] = "c_raise"]
    /\ connected' = FALSE
    /\ released' = (released /\ p \in Tasks)
    /\ UNCHANGED <<cfgVars, fnVars, ctVars, plugVars, topicVars, routerVars, hasClient, websocket, listen_task, reconnect_attempts,
                   socks, lock, cctx, sctx, psock, awaited, cancelReq, storageVars,
                   writes, sent, bgFails, quiet, late_delivery>>

\* connect(): the socket opened, in the specifications of the whole session.
ConnectOpened(p) ==
    /\ pc[p] = "c_open"
    /\ ConnectOpenedUpTo(p, MaxSockets)

InitialSites == {"c_info", "c_status"}

Verb(site) ==
    CASE site \in {"c_info", "u_info"} -> "info"
      [] site \in {"c_status", "u_status"} -> "status"
      [] OTHER -> "command"

\* The record connect() keeps of its initial requests (ghost).
Logged(p, what) ==
    IF sctx[p] \in InitialSites THEN [sent EXCEPT ![p] = Append(@, what)] ELSE sent

\* send_message(), the check before anything is sent.
NotConnected == ~connected \/ websocket = 0

\* send_message() as it would be if line 119 tested the socket reference only.
SendMessageEnterSocketOnly(p) ==
    /\ pc[p] = "sm_call" /\ Turn(p)
    /\ IF websocket = 0
         THEN /\ pc' = [pc EXCEPT ![p] = "sm_raise"]
              /\ exc' = [exc EXCEPT ![p] = "ConnectionError"]
              /\ sent' = Logged(p, "fail")
              /\ psock' = psock
         ELSE /\ pc' = [pc EXCEPT ![p] = "sm_wait"]
              /\ psock' = [psock EXCEPT ![p] = websocket]
              /\ UNCHANGED <<exc, sent>>
    /\ UNCHANGED <<cfgVars, fnVars, ctVars, plugVars, topicVars, routerVars, hasClient, clientVars, socks, lock, cctx, sctx, awaited,
                   cancelReq, storageVars, writes, bgFails, quiet, released,
                   late_delivery>>

\* send_message(), from the call to the await of websocket.send.
SendMessageEnter(p) ==
    /\ pc[p] = "sm_call" /\ Turn(p)
    /\ IF NotConnected
         THEN /\ pc' = [pc EXCEPT ![p] = "sm_raise"]
              /\ exc' = [exc EXCEPT ![p] = "ConnectionError"]
              /\ sent' = Logged(p, "fail")
              /\ psock' = psock
         ELSE /\ pc' = [pc EXCEPT ![p] = "sm_wait"]
              /\ psock' = [psock EXCEPT ![p] = websocket]
              /\ UNCHANGED <<exc, sent>>
    /\ UNCHANGED <<cfgVars, fnVars, ctVars, plugVars, topicVars, routerVars, hasClient, clientVars, socks, lock, cctx, sctx, awaited,
                   cancelReq, storageVars, writes, bgFails, quiet, released,
                   late_delivery>>

\* send_message(), websocket.send completes: the frame is written to the socket
\* the call took, or the send raises because that socket is closed.
SendMessageDone(p) ==
    /\ pc[p] = "sm_wait" /\ Turn(p) /\ ~Cancelling(p)
    /\ IF socks[psock[p]] = "open"
         THEN /\ writes' = 1 - writes
              /\ pc' = [pc EXCEPT ![p] = "sm_ok"]
              /\ sent' = Logged(p, Verb(sctx[p]))
              /\ exc' = exc
         ELSE /\ writes' = writes
              /\ pc' = [pc EXCEPT ![p] = "sm_raise"]
              /\ sent' = Logged(p, "fail")
              /\ exc' = [exc EXCEPT ![p] = "ConnectionClosed"]
    /\ psock' = [psock EXCEPT ![p] = 0]
    /\ UNCHANGED <<cfgVars, fnVars, ctVars, plugVars, topicVars, routerVars, hasClient, clientVars, socks, lock, cctx, sctx,
                   awaited, cancelReq, storageVars, bgFails, quiet, released,
                   late_delivery>>

\* connect() as it would be without the inner try of lines 82-91: a failure of
\* get_device_info() reaches the outer except clause, which marks the session
\* disconnected and raises.
ConnectAfterInfoRaises(p) ==
    /\ pc[p] \in {"sm_ok", "sm_raise"} /\ sctx[p] = "c_info" /\ Turn(p)
    /\ IF pc[p] = "sm_ok"
         THEN /\ pc' = [pc EXCEPT ![p] = "sm_call"]
              /\ sctx' = [sctx EXCEPT ![p] = "c_status"]
              /\ exc' = [exc EXCEPT ![p] = "none"]
              /\ connected' = connected
         ELSE /\ pc' = [pc EXCEPT ![p] = "c_raise"]
              /\ sctx' = [sctx EXCEPT ![p] = "none"]
              /\ exc' = exc
              /\ connected' = FALSE
    /\ UNCHANGED <<cfgVars, fnVars, ctVars, plugVars, topicVars, routerVars, hasClient, websocket, listen_task, reconnect_attempts,
                   socks, lock, cctx, psock, awaited, cancelReq, storageVars,
                   ghostVars>>

\* connect(), after get_device_info(): on success get_device_status() is called,
\* a failure is caught and logged and connect() returns normally.
ConnectAfterInfo(p) ==
    /\ pc[p] \in {"sm_ok", "sm_raise"} /\ sctx[p] = "c_info" /\ Turn(p)
    /\ IF pc[p] = "sm_ok"
         THEN /\ pc' = [pc EXCEPT ![p] = "sm_call"]
              /\ sctx' = [sctx EXCEPT ![p] = "c_status"]
         ELSE /\ pc' = [pc EXCEPT ![p] = "c_ok"]
              /\ sctx' = [sctx EXCEPT ![p] = "none"]
    /\ exc' = [exc EXCEPT ![p] = "none"]
    /\ UNCHANGED <<cfgVars, fnVars, ctVars, plugVars, topicVars, routerVars, hasClient, clientVars, socks, lock, cctx, psock, awaited,
                   cancelReq, storageVars, ghostVars>>

\* connect(), after get_device_status(): connect() returns normally either way.
ConnectAfterStatus(p) ==
    /\ pc[p] \in {"sm_ok", "sm_raise"} /\ sctx[p] = "c_status" /\ Turn(p)
    /\ pc' = [pc EXCEPT ![p] = "c_ok"]
    /\ sctx' = [sctx EXCEPT ![p] = "none"]
    /\ exc' = [exc EXCEPT ![p] = "none"]
    /\ UNCHANGED <<cfgVars, fnVars, ctVars, plugVars, topicVars, routerVars, hasClient, clientVars, socks, lock, cctx, psock, awaited,
                   cancelReq, storageVars, ghostVars>>

\* disconnect(), from the call to its first await (or to its return when there
\* is nothing to wait for).  Awaiting a task that is already done does not
\* suspend.
disconnect(p) ==
    /\ connected' = FALSE
    /\ IF listen_task # 0 /\ pc[listen_task] # "done"
         THEN /\ cancelReq' = [cancelReq EXCEPT ![listen_task] = TRUE]
              /\ awaited' = [awaited EXCEPT ![p] = listen_task]
              /\ pc' = [pc EXCEPT ![p] = "d_await_task"]
              /\ UNCHANGED <<listen_task, psock, quiet, released>>
         ELSE /\ listen_task' = 0
              /\ UNCHANGED <<cancelReq, awaited>>
              /\ IF websocket # 0
                   THEN /\ pc' = [pc EXCEPT ![p] = "d_close"]
                        /\ psock' = [psock EXCEPT ![p] = websocket]
                        /\ quiet' = quiet
                        /\ released' = released
                   ELSE /\ pc' = [pc EXCEPT ![p] = "d_ret"]
                        /\ psock' = psock
                        /\ quiet' = TRUE
                        /\ released' = TRUE
    /\ UNCHANGED <<websocket, reconnect_attempts, socks>>

\* disconnect(): the awaited read task has finished; the reference is dropped
\* and the socket the session references now, if any, is closed.
DisconnectTaskDone(p) ==
    /\ pc[p] = "d_await_task" /\ Turn(p)
    /\ pc[awaited[p]] = "done"
    /\ listen_task' = 0
    /\ awaited' = [awaited EXCEPT ![p] = 0]
    /\ IF websocket # 0
         THEN /\ pc' = [pc EXCEPT ![p] = "d_close"]
              /\ psock' = [psock EXCEPT ![p] = websocket]
              /\ quiet' = quiet
              /\ released' = released
         ELSE /\ pc' = [pc EXCEPT ![p] = "d_ret"]
              /\ psock' = psock
              /\ quiet' = TRUE
              /\ released' = TRUE
    /\ UNCHANGED <<cfgVars, fnVars, ctVars, plugVars, topicVars, routerVars, hasClient, websocket, connected, reconnect_attempts, socks,
                   lock, cctx, sctx, exc, cancelReq, storageVars, writes,
                   sent, bgFails, late_delivery>>

\* disconnect(): websocket.close() has completed (an error is swallowed), the
\* reference to the socket is dropped and disconnect() returns.
DisconnectClosed(p) ==
    /\ pc[p] = "d_close" /\ Turn(p)
    /\ socks' = [socks EXCEPT ![psock[p]] = IF @ = "open" THEN "closed_local" ELSE @]
    /\ websocket' = 0
    /\ pc' = [pc EXCEPT ![p] = "d_ret"]
    /\ quiet' = TRUE
    /\ released' = TRUE
    /\ psock' = [psock EXCEPT ![p] = 0]
    /\ UNCHANGED <<cfgVars, fnVars, ctVars, plugVars, topicVars, routerVars, hasClient, listen_task, connected, reconnect_attempts, lock,
                   cctx, sctx, awaited, exc, cancelReq, storageVars,
                   writes, sent, bgFails, late_delivery>>

\* ping(), from the call to the await of the pong: False at once when the
\* session is not connected or references no socket.  The storage coordinator
\* may have dropped its client (async_shutdown), and the call is then an
\* AttributeError, which its refresh reports as UpdateFailed.
PingEnter(p) ==
    /\ pc[p] = "r_ping" /\ Turn(p)
    /\ IF ~hasClient
         THEN /\ pc' = [pc EXCEPT ![p] = "r_update_failed"]
              /\ exc' = [exc EXCEPT ![p] = "AttributeError"]
              /\ lock' = IF lock = p THEN 0 ELSE lock
              /\ psock' = psock
         ELSE /\ IF NotConnected
                   THEN /\ pc' = [pc EXCEPT ![p] = "ping_false"]
                        /\ psock' = psock
                   ELSE /\ pc' = [pc EXCEPT ![p] = "ping_wait"]
                        /\ psock' = [psock EXCEPT ![p] = websocket]
              /\ UNCHANGED <<exc, lock>>
    /\ UNCHANGED <<cfgVars, fnVars, ctVars, plugVars, topicVars, routerVars, hasClient, clientVars, socks, cctx, sctx, awaited,
                   cancelReq, storageVars, ghostVars>>

\* ping() as it would be without the try of lines 214-219: a ping on a closed
\* socket raises ConnectionClosed to the caller.
PingDoneRaises(p) ==
    /\ pc[p] = "ping_wait" /\ Turn(p)
    /\ IF socks[psock[p]] = "open"
         THEN /\ \E pong \in BOOLEAN :
                   pc' = [pc EXCEPT ![p] = IF pong THEN "ping_true" ELSE "ping_false"]
              /\ exc' = exc
         ELSE /\ pc' = [pc EXCEPT ![p] = "r_raised"]
              /\ exc' = [exc EXCEPT ![p] = "ConnectionClosed"]
    /\ psock' = [psock EXCEPT ![p] = 0]
    /\ UNCHANGED <<cfgVars, fnVars, ctVars, plugVars, topicVars, routerVars, hasClient, clientVars, socks, lock, cctx, sctx,
                   awaited, cancelReq, storageVars, ghostVars>>

\* ping(): the pong arrived in time (True), or the ping raised or timed out
\* (False).  ping() never changes the session.
PingDone(p) ==
    /\ pc[p] = "ping_wait" /\ Turn(p)
    /\ \E pong \in BOOLEAN :
        pc' = [pc EXCEPT ![p] = IF socks[psock[p]] = "open" /\ pong
                                  THEN "ping_true" ELSE "ping_false"]
    /\ psock' = [psock EXCEPT ![p] = 0]
    /\ UNCHANGED <<cfgVars, fnVars, ctVars, plugVars, topicVars, routerVars, hasClient, clientVars, socks, lock, cctx, sctx,
                   awaited, exc, cancelReq, storageVars, ghostVars>>

\* _handle_reconnect(), from the call to the sleep: give up at the maximum,
\* else count the attempt and sleep.  Giving up ends the read task, whichever
\* except clause or recursive call it was made from.
handle_reconnect(t) ==
    IF reconnect_attempts >= max_reconnect_attempts
      THEN /\ reconnect_attempts' = reconnect_attempts
           /\ pc' = [pc EXCEPT ![t] = "done"]
      ELSE /\ reconnect_attempts' = reconnect_attempts + 1
           /\ pc' = [pc EXCEPT ![t] = "t_sleep"]

\* Another coroutine is suspended in recv() on the socket the session references.
ReaderParked(t) ==
    \E u \in Tasks \ {t} :
        pc[u] = "t_read" /\ psock[u] = websocket /\ socks[websocket] = "open"

\* _listen_for_messages() starts: "async for message in self._websocket" takes
\* the socket the session references now.  No socket is a TypeError (except
\* Exception).  A socket another task is already reading raises in recv():
\* RuntimeError in the legacy websockets implementation (except Exception),
\* ConcurrencyError, a WebSocketException, in the current one.
ListenStart(t) ==
    /\ pc[t] = "t_new" /\ Turn(t) /\ ~Cancelling(t)
    /\ IF websocket = 0
         THEN /\ connected' = FALSE
              /\ pc' = [pc EXCEPT ![t] = "done"]
              /\ UNCHANGED <<psock, reconnect_attempts>>
         ELSE IF ReaderParked(t)
                THEN /\ connected' = FALSE
                     /\ psock' = psock
                     /\ \E library \in {"legacy", "current"} :
                           IF library = "legacy"
                             THEN /\ pc' = [pc EXCEPT ![t] = "done"]
                                  /\ reconnect_attempts' = reconnect_attempts
                             ELSE handle_reconnect(t)
                ELSE /\ pc' = [pc EXCEPT ![t] = "t_read"]
                     /\ psock' = [psock EXCEPT ![t] = websocket]
                     /\ UNCHANGED <<connected, reconnect_attempts>>
    /\ UNCHANGED <<cfgVars, fnVars, ctVars, plugVars, topicVars, routerVars, hasClient, websocket, listen_task, socks, lock, cctx, sctx,
                   awaited, exc, cancelReq, storageVars, ghostVars>>

\* The refresh is inside async_get_storage_info(): in the connect() or the
\* send_message() of its async_send_command(), or in its wait loop.
InfoRequested ==
    /\ family = "storage"
    /\ \/ pc[Refresh] = "g_poll"
       \/ sctx[Refresh] = "cmd"
       \/ cctx[Refresh] = "g_connect"

\* _listen_for_messages(), one frame.  A frame that is not JSON and a frame
\* whose callback raises are logged and the loop goes on.  The storage router
\* keeps a device-info answer for async_get_storage_info.
ListenFrame(t) ==
    /\ pc[t] = "t_read" /\ Turn(t) /\ ~Cancelling(t)
    /\ socks[psock[t]] = "open"
    /\ \E kind \in FrameKinds :
        /\ storage_info_response' =
              IF family = "storage" /\ kind = "info" THEN TRUE ELSE storage_info_response
        /\ info_fresh' =
              IF family = "storage" /\ kind = "info" THEN InfoRequested ELSE info_fresh
        /\ late_delivery' = (late_delivery \/ (quiet /\ kind # "undecodable"))
    /\ UNCHANGED <<cfgVars, fnVars, ctVars, plugVars, topicVars, routerVars, hasClient, clientVars, socks, lock, procVars, polls, writes,
                   sent, bgFails, quiet, released>>

\* _listen_for_messages(): the socket was closed with code 1000 or 1001, by
\* the peer or by disconnect().  The socket's iterator ends without an
\* exception, so no except clause runs and the coroutine returns.
ListenClosedOK(t) ==
    /\ pc[t] = "t_read" /\ Turn(t) /\ ~Cancelling(t)
    /\ socks[psock[t]] \in {"closed_ok", "closed_local"}
    /\ pc' = [pc EXCEPT ![t] = "done"]
    /\ psock' = [psock EXCEPT ![t] = 0]
    /\ UNCHANGED <<cfgVars, fnVars, ctVars, plugVars, topicVars, routerVars, hasClient, clientVars, socks, lock, cctx, sctx,
                   awaited, exc, cancelReq, storageVars, ghostVars>>

\* _listen_for_messages(): the socket was closed abnormally or after a protocol
\* error; recv() raises ConnectionClosed.
ListenClosedError(t) ==
    /\ pc[t] = "t_read" /\ Turn(t) /\ ~Cancelling(t)
    /\ socks[psock[t]] = "closed_err"
    /\ connected' = FALSE
    /\ handle_reconnect(t)
    /\ psock' = [psock EXCEPT ![t] = 0]
    /\ UNCHANGED <<cfgVars, fnVars, ctVars, plugVars, topicVars, routerVars, hasClient, websocket, listen_task, socks, lock, cctx, sctx,
                   awaited, exc, cancelReq, storageVars, ghostVars>>

\* _handle_reconnect(): the sleep is over, connect() is called.
ReconnectWake(t) ==
    /\ pc[t] = "t_sleep" /\ Turn(t) /\ ~Cancelling(t)
    /\ connect(t, "t_reconnect")
    /\ UNCHANGED <<cfgVars, fnVars, ctVars, plugVars, topicVars, routerVars, hasClient, clientVars, socks, lock, sctx, psock, awaited,
                   exc, cancelReq, storageVars, writes, bgFails, quiet, released, late_delivery>>

\* _handle_reconnect(): connect() returned or raised.  After a success the
\* coroutine returns; a failure is caught and _handle_reconnect() calls itself.
ReconnectReturn(t) ==
    /\ pc[t] \in {"c_ok", "c_raise"} /\ cctx[t] = "t_reconnect" /\ Turn(t)
    /\ IF pc[t] = "c_ok"
         THEN /\ pc' = [pc EXCEPT ![t] = "done"]
              /\ UNCHANGED <<reconnect_attempts, bgFails>>
         ELSE /\ handle_reconnect(t)
              /\ bgFails' = bgFails + 1
    /\ cctx' = [cctx EXCEPT ![t] = "none"]
    /\ exc' = [exc EXCEPT ![t] = "none"]
    /\ sent' = [sent EXCEPT ![t] = <<>>]
    /\ UNCHANGED <<cfgVars, fnVars, ctVars, plugVars, topicVars, routerVars, hasClient, websocket, listen_task, connected, socks, lock,
                   sctx, psock, awaited, cancelReq, storageVars, writes,
                   quiet, released, late_delivery>>

\* A cancelled read task: CancelledError is thrown into it at the await it is
\* suspended in; no except clause catches it and the task ends.
ListenCancelled(t) ==
    /\ cancelReq[t] /\ Turn(t)
    /\ pc[t] \in {"t_new", "t_read", "t_sleep", "c_open", "sm_wait"}
    /\ pc' = [pc EXCEPT ![t] = "done"]
    /\ cancelReq' = [cancelReq EXCEPT ![t] = FALSE]
    /\ psock' = [psock EXCEPT ![t] = 0]
    /\ cctx' = [cctx EXCEPT ![t] = "none"]
    /\ sctx' = [sctx EXCEPT ![t] = "none"]
    /\ sent' = [sent EXCEPT ![t] = <<>>]
    /\ UNCHANGED <<cfgVars, fnVars, ctVars, plugVars, topicVars, routerVars, hasClient, clientVars, socks, lock,
                   awaited, exc, storageVars, writes, bgFails, quiet, released, late_delivery>>

(***************************************************************************)
(* The device                                                              *)
(***************************************************************************)

\* The peer (or the network) closes an open socket, cleanly or not.
PeerClose(s) ==
    /\ LoopIdle
    /\ socks[s] = "open"
    /\ \E how \in {"closed_ok", "closed_err"} : socks' = [socks EXCEPT ![s] = how]
    /\ UNCHANGED <<cfgVars, fnVars, ctVars, plugVars, topicVars, routerVars, hasClient, clientVars, lock, procVars, storageVars,
                   ghostVars>>

(***************************************************************************)
(* The coordinators: scheduled refresh, user command, shutdown             *)
(***************************************************************************)

\* Leaving "async with self._connection_lock".
Released(p) == IF lock = p THEN 0 ELSE lock

\* _async_update_data(), both coordinators, from the call to the first await.
\* The storage coordinator fails before it takes the lock when it has no
\* client.  With the lock taken, a session that is not connected is connected
\* first; otherwise the refresh goes on to ping().
RefreshStart ==
    /\ pc[Refresh] = "idle" /\ LoopIdle
    /\ IF family = "storage" /\ ~hasClient
         THEN /\ pc' = [pc EXCEPT ![Refresh] = "r_update_failed"]
              /\ UNCHANGED <<lock, cctx, sent>>
         ELSE /\ lock = 0
              /\ lock' = Refresh
              /\ IF ~connected
                   THEN connect(Refresh, IF family = "charger" THEN "r_connect"
                                                                ELSE "s_connect")
                   ELSE /\ pc' = [pc EXCEPT ![Refresh] = "r_ping"]
                        /\ UNCHANGED <<cctx, sent>>
    /\ UNCHANGED <<cfgVars, fnVars, ctVars, plugVars, topicVars, routerVars, hasClient, clientVars, socks, sctx, psock, awaited, exc,
                   cancelReq, storageVars, writes, bgFails, quiet, released, late_delivery>>

\* The exceptions "except (ConnectionError, OSError, TimeoutError)" catches.
CaughtOnConnect(e) == e \in {"ConnectionError", "OSError", "TimeoutError"}

\* The exceptions "except (ConnectionError, ValueError, OSError, TimeoutError)" catches.
CaughtOnRequest(e) == e \in {"ConnectionError", "ValueError", "OSError", "TimeoutError"}

\* EwayChargerCoordinator._async_update_data(): connect() returned or raised.
\* A caught failure becomes UpdateFailed, any other exception leaves the
\* refresh as it is.
ChargerConnectReturn ==
    /\ pc[Refresh] \in {"c_ok", "c_raise"} /\ Turn(Refresh)
    /\ cctx[Refresh] \in {"r_connect", "r_reconnect"}
    /\ IF pc[Refresh] = "c_ok"
         THEN /\ pc' = [pc EXCEPT ![Refresh] =
                          IF cctx[Refresh] = "r_connect" THEN "r_ping" ELSE "r_request"]
              /\ lock' = lock
         ELSE /\ pc' = [pc EXCEPT ![Refresh] =
                          IF CaughtOnConnect(exc[Refresh]) THEN "r_update_failed"
                                                           ELSE "r_raised"]
              /\ lock' = Released(Refresh)
    /\ cctx' = [cctx EXCEPT ![Refresh] = "none"]
    /\ sent' = [sent EXCEPT ![Refresh] = <<>>]
    /\ UNCHANGED <<cfgVars, fnVars, ctVars, plugVars, topicVars, routerVars, hasClient, clientVars, socks, sctx, psock, awaited, exc,
                   cancelReq, storageVars, writes, bgFails, quiet, released, late_delivery>>

\* EwayChargerCoordinator._async_update_data(): ping() returned.  After a
\* failed ping the session is disconnected and then connected again.
ChargerPingReturn ==
    /\ pc[Refresh] \in {"ping_true", "ping_false"} /\ Turn(Refresh)
    /\ family = "charger"
    /\ IF pc[Refresh] = "ping_true"
         THEN /\ pc' = [pc EXCEPT ![Refresh] = "r_request"]
              /\ UNCHANGED <<clientVars, socks, psock, awaited, cancelReq, quiet, released>>
         ELSE disconnect(Refresh)
    /\ UNCHANGED <<cfgVars, fnVars, ctVars, plugVars, topicVars, routerVars, hasClient, lock, cctx, sctx, exc, storageVars, writes, sent,
                   bgFails, late_delivery>>

\* EwayChargerCoordinator._async_update_data(): disconnect() returned.
ChargerDisconnectReturn ==
    /\ pc[Refresh] = "d_ret" /\ Turn(Refresh)
    /\ connect(Refresh, "r_reconnect")
    /\ UNCHANGED <<cfgVars, fnVars, ctVars, plugVars, topicVars, routerVars, hasClient, clientVars, socks, lock, sctx, psock, awaited,
                   exc, cancelReq, storageVars, writes, bgFails, quiet, released, late_delivery>>

\* EwayChargerCoordinator._async_update_data(): with a connected session the
\* refresh requests the device info; get_device_info() raises ValueError for an
\* incomplete identity, which is caught and logged.
ChargerRequest ==
    /\ pc[Refresh] = "r_request" /\ Turn(Refresh)
    /\ IF connected
         THEN IF IdentityComplete
                THEN /\ pc' = [pc EXCEPT ![Refresh] = "sm_call"]
                     /\ sctx' = [sctx EXCEPT ![Refresh] = "u_info"]
                     /\ lock' = lock
                ELSE /\ pc' = [pc EXCEPT ![Refresh] = "r_ok"]
                     /\ sctx' = sctx
                     /\ lock' = Released(Refresh)
         ELSE /\ pc' = [pc EXCEPT ![Refresh] = "r_ok"]
              /\ sctx' = sctx
              /\ lock' = Released(Refresh)
    /\ UNCHANGED <<cfgVars, fnVars, ctVars, plugVars, topicVars, routerVars, hasClient, clientVars, socks, cctx, psock, awaited, exc,
                   cancelReq, storageVars, ghostVars>>

\* EwayChargerCoordinator._async_update_data(): get_device_info() or
\* get_device_status() returned or raised.  A caught exception is logged and
\* the refresh returns the data; ConnectionClosed, raised by websocket.send,
\* is none of the caught types.
ChargerRequestReturn ==
    /\ pc[Refresh] \in {"sm_ok", "sm_raise"} /\ Turn(Refresh)
    /\ sctx[Refresh] \in {"u_info", "u_status"}
    /\ IF pc[Refresh] = "sm_ok" /\ sctx[Refresh] = "u_info"
         THEN /\ pc' = [pc EXCEPT ![Refresh] = "sm_call"]
              /\ sctx' = [sctx EXCEPT ![Refresh] = "u_status"]
              /\ UNCHANGED <<lock, exc>>
         ELSE /\ pc' = [pc EXCEPT ![Refresh] =
                          IF pc[Refresh] = "sm_ok" \/ CaughtOnRequest(exc[Refresh])
                            THEN "r_ok" ELSE "r_raised"]
              /\ sctx' = [sctx EXCEPT ![Refresh] = "none"]
              /\ exc' = [exc EXCEPT ![Refresh] =
                          IF pc[Refresh] = "sm_ok" \/ CaughtOnRequest(@) THEN "none" ELSE @]
              /\ lock' = Released(Refresh)
    /\ UNCHANGED <<cfgVars, fnVars, ctVars, plugVars, topicVars, routerVars, hasClient, clientVars, socks, cctx, psock, awaited,
                   cancelReq, storageVars, ghostVars>>

\* _async_update_data() returns or raises to the scheduler.
RefreshReturn ==
    /\ pc[Refresh] \in {"r_ok", "r_update_failed", "r_raised"} /\ Turn(Refresh)
    /\ pc' = [pc EXCEPT ![Refresh] = "idle"]
    /\ exc' = [exc EXCEPT ![Refresh] = "none"]
    /\ UNCHANGED <<cfgVars, fnVars, ctVars, plugVars, topicVars, routerVars, hasClient, clientVars, socks, lock, cctx, sctx, psock,
                   awaited, cancelReq, storageVars, ghostVars>>

\* EwayStorageCoordinator._async_update_data(): connect() returned or raised.
\* Everything raised inside the try block, an AttributeError on a dropped
\* client included, becomes UpdateFailed.  After the first connect() the device
\* info is requested; after the reconnect the refresh is over.
StorageConnectReturn ==
    /\ pc[Refresh] \in {"c_ok", "c_raise"} /\ Turn(Refresh)
    /\ cctx[Refresh] \in {"s_connect", "s_reconnect"}
    /\ IF pc[Refresh] = "c_ok" /\ hasClient /\ connected
         THEN /\ pc' = [pc EXCEPT ![Refresh] =
                          IF cctx[Refresh] = "s_connect" THEN "g_info" ELSE "r_ok"]
              /\ lock' = IF cctx[Refresh] = "s_connect" THEN lock ELSE Released(Refresh)
              /\ exc' = exc
         ELSE /\ pc' = [pc EXCEPT ![Refresh] = "r_update_failed"]
              /\ lock' = Released(Refresh)
              /\ exc' = [exc EXCEPT ![Refresh] =
                          IF pc[Refresh] = "c_raise" THEN @
                          ELSE IF ~hasClient THEN "AttributeError" ELSE "UpdateFailed"]
    /\ cctx' = [cctx EXCEPT ![Refresh] = "none"]
    /\ sent' = [sent EXCEPT ![Refresh] = <<>>]
    /\ UNCHANGED <<cfgVars, fnVars, ctVars, plugVars, topicVars, routerVars, hasClient, clientVars, socks, sctx, psock, awaited,
                   cancelReq, storageVars, writes, bgFails, quiet, released, late_delivery>>

\* EwayStorageCoordinator.async_send_command(), from the call to its first
\* await: ValueError without a client, connect() when the session is not
\* connected, else send_message().  It takes no lock.
send_command(p) ==
    IF ~hasClient
      THEN /\ pc' = [pc EXCEPT ![p] = IF p = Refresh THEN "r_update_failed" ELSE "cmd_raised"]
           /\ exc' = [exc EXCEPT ![p] = "ValueError"]
           /\ lock' = Released(p)
           /\ UNCHANGED <<cctx, sctx, sent>>
      ELSE IF ~connected
             THEN /\ connect(p, "g_connect")
                  /\ UNCHANGED <<exc, lock, sctx>>
             ELSE /\ pc' = [pc EXCEPT ![p] = "sm_call"]
                  /\ sctx' = [sctx EXCEPT ![p] = "cmd"]
                  /\ UNCHANGED <<exc, lock, cctx, sent>>

\* EwayStorageCoordinator.async_get_storage_info(), called by the refresh:
\* None at once without a serial number, else the request is sent.
StorageInfoRequest ==
    /\ pc[Refresh] = "g_info" /\ Turn(Refresh)
    /\ IF device_sn = ""
         THEN /\ pc' = [pc EXCEPT ![Refresh] = "r_ping"]
              /\ UNCHANGED <<exc, lock, cctx, sctx, sent>>
         ELSE send_command(Refresh)
    /\ info_fresh' = FALSE
    /\ UNCHANGED <<cfgVars, fnVars, ctVars, plugVars, topicVars, routerVars, hasClient, clientVars, socks, psock, awaited, cancelReq,
                   storage_info_response, polls, writes, bgFails, quiet, released, late_delivery>>

\* EwayStorageCoordinator.async_send_command(): its connect() returned or
\* raised.  A failure propagates to the caller; after a success the command is
\* sent through the client the coordinator references now.
StorageCommandConnectReturn(p) ==
    /\ pc[p] \in {"c_ok", "c_raise"} /\ Turn(p)
    /\ cctx[p] = "g_connect"
    /\ IF pc[p] = "c_ok" /\ hasClient
         THEN /\ pc' = [pc EXCEPT ![p] = "sm_call"]
              /\ sctx' = [sctx EXCEPT ![p] = "cmd"]
              /\ UNCHANGED <<exc, lock>>
         ELSE /\ pc' = [pc EXCEPT ![p] = IF p = Refresh THEN "r_update_failed"
                                                       ELSE "cmd_raised"]
              /\ exc' = [exc EXCEPT ![p] = IF pc[p] = "c_raise" THEN @ ELSE "AttributeError"]
              /\ lock' = Released(p)
              /\ sctx' = sctx
    /\ cctx' = [cctx EXCEPT ![p] = "none"]
    /\ sent' = [sent EXCEPT ![p] = <<>>]
    /\ UNCHANGED <<cfgVars, fnVars, ctVars, plugVars, topicVars, routerVars, hasClient, clientVars, socks, psock, awaited, cancelReq,
                   storageVars, writes, bgFails, quiet, released, late_delivery>>

\* EwayStorageCoordinator: send_message() of async_send_command() returned or
\* raised.  In async_get_storage_info() the wait for the answer begins.
StorageCommandSent(p) ==
    /\ pc[p] \in {"sm_ok", "sm_raise"} /\ Turn(p)
    /\ sctx[p] = "cmd" /\ family = "storage"
    /\ IF pc[p] = "sm_ok"
         THEN /\ pc' = [pc EXCEPT ![p] = IF p = Refresh THEN "g_poll" ELSE "cmd_ok"]
              /\ lock' = lock
         ELSE /\ pc' = [pc EXCEPT ![p] = IF p = Refresh THEN "r_update_failed"
                                                       ELSE "cmd_raised"]
              /\ lock' = Released(p)
    /\ polls' = 0
    /\ sctx' = [sctx EXCEPT ![p] = "none"]
    /\ UNCHANGED <<cfgVars, fnVars, ctVars, plugVars, topicVars, routerVars, hasClient, clientVars, socks, cctx, psock, awaited, exc,
                   cancelReq, storage_info_response, info_fresh, ghostVars>>

\* EwayStorageCoordinator.async_get_storage_info(): one sleep of the wait loop
\* is over.  A stored answer is taken and cleared; after PollLimit sleeps the
\* call gives up.  Either way the refresh goes on to ping().
StoragePoll ==
    /\ pc[Refresh] = "g_poll" /\ Turn(Refresh)
    /\ IF storage_info_response
         THEN /\ storage_info_response' = FALSE
              /\ info_fresh' = FALSE
              /\ polls' = 0
              /\ pc' = [pc EXCEPT ![Refresh] = "r_ping"]
         ELSE /\ storage_info_response' = storage_info_response
              /\ info_fresh' = info_fresh
              /\ IF polls + 1 >= PollLimit
                   THEN /\ polls' = 0
                        /\ pc' = [pc EXCEPT ![Refresh] = "r_ping"]
                   ELSE /\ polls' = polls + 1
                        /\ pc' = pc
    /\ UNCHANGED <<cfgVars, fnVars, ctVars, plugVars, topicVars, routerVars, hasClient, clientVars, socks, lock, cctx, sctx, psock,
                   awaited, exc, cancelReq, ghostVars>>

\* EwayStorageCoordinator._async_update_data(): ping() returned.  After a
\* failed ping connect() is called on the session as it is.
StoragePingReturn ==
    /\ pc[Refresh] \in {"ping_true", "ping_false"} /\ Turn(Refresh)
    /\ family = "storage"
    /\ IF pc[Refresh] = "ping_true"
         THEN /\ pc' = [pc EXCEPT ![Refresh] = "r_ok"]
              /\ lock' = Released(Refresh)
              /\ UNCHANGED <<cctx, sent>>
         ELSE /\ connect(Refresh, "s_reconnect")
              /\ lock' = lock
    /\ UNCHANGED <<cfgVars, fnVars, ctVars, plugVars, topicVars, routerVars, hasClient, clientVars, socks, sctx, psock, awaited, exc,
                   cancelReq, storageVars, writes, bgFails, quiet, released, late_delivery>>

\* A user action as it would be without the checks of lines 708 and 861:
\* the command is built and sent whatever the identity.
CommandStartUnchecked ==
    /\ pc[Command] = "idle" /\ LoopIdle
    /\ IF family = "charger"
         THEN /\ lock = 0
              /\ IF ~connected
                   THEN /\ pc' = [pc EXCEPT ![Command] = "cmd_raised"]
                        /\ exc' = [exc EXCEPT ![Command] = "ConnectionError"]
                        /\ UNCHANGED <<lock, sctx>>
                   ELSE /\ pc' = [pc EXCEPT ![Command] = "sm_call"]
                        /\ sctx' = [sctx EXCEPT ![Command] = "cmd"]
                        /\ lock' = Command
                        /\ exc' = exc
              /\ UNCHANGED <<cctx, sent>>
         ELSE send_command(Command)
    /\ UNCHANGED <<cfgVars, fnVars, ctVars, plugVars, topicVars, routerVars, hasClient, clientVars, socks, psock, awaited, cancelReq,
                   storageVars, writes, bgFails, quiet, released, late_delivery>>

\* A user action.  The charger's async_start_charging() and
\* async_stop_charging() raise ValueError for an incomplete identity before
\* they build the command; async_send_command() then takes the lock and
\* refuses when the session is not connected.  The storage coordinator's
\* async_send_command() takes no lock and connects first.
CommandStart ==
    /\ pc[Command] = "idle" /\ LoopIdle
    /\ IF family = "charger"
         THEN /\ IF ~IdentityComplete
                   THEN /\ pc' = [pc EXCEPT ![Command] = "cmd_raised"]
                        /\ exc' = [exc EXCEPT ![Command] = "ValueError"]
                        /\ UNCHANGED <<lock, sctx>>
                   ELSE /\ lock = 0
                        /\ IF ~connected
                             THEN /\ pc' = [pc EXCEPT ![Command] = "cmd_raised"]
                                  /\ exc' = [exc EXCEPT ![Command] = "ConnectionError"]
                                  /\ UNCHANGED <<lock, sctx>>
                             ELSE /\ pc' = [pc EXCEPT ![Command] = "sm_call"]
                                  /\ sctx' = [sctx EXCEPT ![Command] = "cmd"]
                                  /\ lock' = Command
                                  /\ exc' = exc
              /\ UNCHANGED <<cctx, sent>>
         ELSE send_command(Command)
    /\ UNCHANGED <<cfgVars, fnVars, ctVars, plugVars, topicVars, routerVars, hasClient, clientVars, socks, psock, awaited, cancelReq,
                   storageVars, writes, bgFails, quiet, released, late_delivery>>

\* EwayChargerCoordinator.async_send_command(): send_message() returned or
\* raised; the exception is raised again and the lock is released.
ChargerCommandSent ==
    /\ pc[Command] \in {"sm_ok", "sm_raise"} /\ Turn(Command)
    /\ sctx[Command] = "cmd" /\ family = "charger"
    /\ pc' = [pc EXCEPT ![Command] = IF pc[Command] = "sm_ok" THEN "cmd_ok"
                                                              ELSE "cmd_raised"]
    /\ lock' = Released(Command)
    /\ sctx' = [sctx EXCEPT ![Command] = "none"]
    /\ UNCHANGED <<cfgVars, fnVars, ctVars, plugVars, topicVars, routerVars, hasClient, clientVars, socks, cctx, psock, awaited, exc,
                   cancelReq, storageVars, ghostVars>>

\* async_send_command() returns or raises to the user action.
CommandReturn ==
    /\ pc[Command] \in {"cmd_ok", "cmd_raised"} /\ Turn(Command)
    /\ pc' = [pc EXCEPT ![Command] = "idle"]
    /\ exc' = [exc EXCEPT ![Command] = "none"]
    /\ UNCHANGED <<cfgVars, fnVars, ctVars, plugVars, topicVars, routerVars, hasClient, clientVars, socks, lock, cctx, sctx, psock,
                   awaited, cancelReq, storageVars, ghostVars>>

\* async_shutdown(): disconnect() when the coordinator has a client.
ShutdownStart ==
    /\ pc[Shutdown] = "idle" /\ LoopIdle
    /\ hasClient
    /\ disconnect(Shutdown)
    /\ UNCHANGED <<cfgVars, fnVars, ctVars, plugVars, topicVars, routerVars, hasClient, lock, cctx, sctx, exc, storageVars, writes, sent,
                   bgFails, late_delivery>>

\* async_shutdown(): disconnect() returned; the storage coordinator drops its
\* client.
ShutdownReturn ==
    /\ pc[Shutdown] = "d_ret" /\ Turn(Shutdown)
    /\ hasClient' = (family = "charger")
    /\ pc' = [pc EXCEPT ![Shutdown] = "idle"]
    /\ UNCHANGED <<cfgVars, fnVars, ctVars, plugVars, topicVars, routerVars, clientVars, socks, lock, cctx, sctx, psock, awaited, exc,
                   cancelReq, storageVars, ghostVars>>

(***************************************************************************)
(* The message routers: _handle_message and its handlers                    *)
(***************************************************************************)

\* A topic is the sequence of its segments, each preceded by "/" in the string.
\* A test that would compare the last segment only.
EndsWithLastSegment(t, suffix) ==
    /\ Len(t) >= 1
    /\ t[Len(t)] = suffix[Len(suffix)]

\* str.endswith for a suffix that begins with "/": the last segments of the
\* topic are those of the suffix.
EndsWith(t, suffix) ==
    /\ Len(t) >= Len(suffix)
    /\ SubSeq(t, Len(t) - Len(suffix) + 1, Len(t)) = suffix

\* Field values: "none" is None or an absent field, the others are strings.
\* int(v) succeeds on a decimal string and raises ValueError on "abc".
Numeric(v) == v \in {"0", "1", "2"}

\* Python truth of a field value.
Truthy(v) == v \notin {"none", ""}

StatusIds == {"gun-status", "charge-status", "pile-status"}

\* len(payload) == 3 and all(item.get("id") in [...] for item in payload).
IsStatusBatch(acks) == Len(acks) = 3 /\ \A i \in 1..3 : acks[i].id \in StatusIds

\* The acknowledgement records [{"id": ..., "value": ...}] the device sends here.
Acks == [id : {"charg-switch", "charg-current", "network-way", "charg-error"},
         value : {"0", "1", "abc"}]

StatusArray(v) ==
    <<[id |-> "gun-status", value |-> "1"], [id |-> "charge-status", value |-> "1"],
      [id |-> "pile-status", value |-> v]>>

\* Payloads that are objects (here with the field pileStatus or without it)
\* and payloads that are arrays of acknowledgement records.
ObjectPayloads ==
    {[shape |-> "object", acks |-> <<>>, pileStatus |-> v] : v \in {"none", "2", "abc"}}

ArrayPayloads ==
    {[shape |-> "array", acks |-> a, pileStatus |-> "none"] :
        a \in {<<>>} \cup {<<x>> : x \in Acks} \cup {StatusArray(v) : v \in {"1", "abc"}}}

Payloads == ObjectPayloads \cup ArrayPayloads

\* The topic suffixes the routers test, in the order of the tests.
ChargerSuffixes == <<<<"info", "post">>, <<"function", "post">>, <<"event", "post">>,
                     <<"property", "post">>, <<"monitor2", "post">>>>

StorageSuffixes == <<<<"info", "post">>, <<"event", "storage", "mini", "post">>>>

\* A topic that ends with none of the suffixes.
UnhandledTopic == <<"dev", "sn", "info", "get">>

\* The topics the device sends here: those the router of its family handles and
\* one it does not.
RouterTopics ==
    LET sufs == IF family = "charger" THEN ChargerSuffixes ELSE StorageSuffixes
    IN {<<"dev", "sn">> \o sufs[i] : i \in DOMAIN sufs} \cup {UnhandledTopic}

\* The keys a JSON object of the device may hold beside "topic" and
\* "payload": none, or one that _device_data uses for a parsed sub-object.
\* A "charging_status" key comes with the value "charging".
ExtraKeys == {{}, {"device_info"}, {"charging_status"}}

\* The envelopes of the device; those with a further key come here with an
\* empty payload object: "device_info" with the unhandled topic,
\* "charging_status" with a device-info message.
Envelopes ==
    {e \in [topic : RouterTopics, payload : Payloads, extra : ExtraKeys] :
        e.extra # {} => /\ e.topic = IF e.extra = {"device_info"} THEN UnhandledTopic
                                     ELSE <<"dev", "sn", "info", "post">>
                        /\ e.payload.shape = "object"
                        /\ e.payload.acks = <<>> /\ e.payload.pileStatus = "none"}

\* The envelopes that come in lists here.
ListItems ==
    {e \in Envelopes :
        /\ e.topic \in {<<"dev", "sn", "info", "post">>, UnhandledTopic}
        /\ e.extra = {}
        /\ e.payload.acks = <<>> /\ e.payload.pileStatus = "none"}

\* The frames a device sends: text that is not JSON, a JSON scalar, an envelope,
\* a list of envelopes.
InboundFrames ==
    {[shape |-> "undecodable", items |-> <<>>], [shape |-> "scalar", items |-> <<>>],
     [shape |-> "list", items |-> <<>>]}
    \cup {[shape |-> "dict", items |-> <<e>>] : e \in Envelopes}
    \cup {[shape |-> "list", items |-> <<e1, e2>>] : e1 \in ListItems, e2 \in ListItems}

\* The coordinator while it handles one frame: _device_data, coordinator.data,
\* the notifications so far, whether an exception is propagating, and whether
\* _storage_info_response was set.
RouterState(dd, pub, sir, status) ==
    [dd |-> dd, pub |-> pub, notes |-> 0, ok |-> TRUE, sir |-> sir,
     cs |-> status.dd, pcs |-> status.pub]

\* self._device_data["charging_status"] = v.
SetStatus(st, v) == [st EXCEPT !.cs = v]

\* self._device_data[k] = ... for the keys ks, from frame n.
Store(st, ks, n) ==
    [st EXCEPT !.dd = [k \in Keys |-> IF k \in ks THEN n ELSE st.dd[k]]]

\* async_set_updated_data(self._device_data.copy()): the entities are notified
\* and coordinator.data holds what _device_data holds now.
Notify(st) == [st EXCEPT !.pub = st.dd, !.pcs = st.cs, !.notes = @ + 1]

\* An exception leaves the handler.
Raise(st) == [st EXCEPT !.ok = FALSE]

\* EwayChargerCoordinator._handle_device_info_response, for a charger:
\* payload.get raises AttributeError when the payload is a list.
handle_device_info_response(st, p, n) ==
    IF p.shape # "object" THEN Raise(st)
    ELSE Notify(Store(st, {"device_info"}, n))

\* EwayChargerCoordinator._handle_charging_control_response.
handle_charging_control_response(st, p, n) ==
    IF p.shape = "array" /\ p.acks # <<>>
      THEN LET a == p.acks[1]
               r == {"charging_control_response"}
           IN CASE a.id = "charg-switch" ->
                     IF a.value = "0"
                       THEN SetStatus(Store(st, {"charging_status"} \cup r, n), "charging")
                     ELSE IF a.value = "1"
                       THEN SetStatus(Store(st, {"charging_status"} \cup r, n), "stopped")
                     ELSE Store(st, r, n)
                [] a.id = "network-way" -> Store(st, {"charging_mode"} \cup r, n)
                [] a.id = "charg-current" ->
                     IF Numeric(a.value) THEN Store(st, {"max_current"} \cup r, n)
                     ELSE Raise(st)
                [] a.id = "reset-pwd" ->
                     Store(st, {"password_reset_response", "screen_password_reset"} \cup r, n)
                [] a.id = "nfc-enable" ->
                     Store(st, {"nfc_enabled", "nfc_control_response"} \cup r, n)
                [] a.id = "card-add" -> Store(st, {"nfc_card_add_response"} \cup r, n)
                [] a.id = "card-del" -> Store(st, {"nfc_card_delete_response"} \cup r, n)
                [] OTHER -> Store(st, r, n)
      ELSE st

\* EwayChargerCoordinator._handle_charging_event: the error codes of a
\* charg-error record are parsed inside a try, a payload object is a finished
\* charging session.
handle_charging_event(st, p, n) ==
    IF p.shape = "array" /\ p.acks # <<>> /\ p.acks[1].id = "charg-error"
      THEN Store(st, {"device_error_response"}, n)
      ELSE IF p.shape = "object"
             THEN SetStatus(Store(st, {"last_charging_session", "charging_status"}, n),
                            "completed")
             ELSE st

\* EwayChargerCoordinator._map_pile_status: None stays None, int(status) otherwise.
map_pile_status_raises(status) == status # "none" /\ ~Numeric(status)

\* EwayChargerCoordinator._handle_device_status_message.
handle_device_status_message(st, p, n) ==
    IF p.shape = "array" /\ p.acks # <<>>
      THEN IF IsStatusBatch(p.acks)
             THEN IF \E i \in 1..3 : Truthy(p.acks[i].value) /\ ~Numeric(p.acks[i].value)
                    THEN Raise(st)
                    ELSE Store(st, {"device_status", "device_status_responses"}, n)
             ELSE LET a == p.acks[1]
                  IN CASE a.id = "network-way" ->
                            Store(st, (IF a.value \in {"1", "2"}
                                         THEN {"charging_mode", "charging_mode_display"}
                                         ELSE {})
                                      \cup {"charging_mode_response"}, n)
                       [] a.id = "charg-current" ->
                            Store(st, {"charging_current_response"}, n)
                       [] a.id = "nfc-enable" ->
                            Store(st, {"nfc_enabled", "nfc_status_response"}, n)
                       [] OTHER -> st
      ELSE IF p.shape = "object"
             THEN IF map_pile_status_raises(p.pileStatus) THEN Raise(st)
                  ELSE Store(st, {"device_status"}, n)
             ELSE st

\* EwayChargerCoordinator._handle_charging_realtime_data: payload.get raises
\* AttributeError when the payload is a list.
handle_charging_realtime_data(st, p, n) ==
    IF p.shape # "object" THEN Raise(st)
    ELSE Store(st, {"charging_realtime"}, n)

\* EwayStorageCoordinator._handle_device_info_response.
storage_handle_device_info_response(st, p, n) ==
    IF p.shape # "object" THEN Raise(st)
    ELSE [Store(st, {"device_info"}, n) EXCEPT !.sir = TRUE]

\* EwayStorageCoordinator._handle_storage_mini_data: the data are stored, the
\* protocol version is merged into device_info, and the entities are notified.
handle_storage_mini_data(st, p, n) ==
    IF p.shape # "object" THEN Raise(st)
    ELSE Notify(Store(st, {"storage_mini", "device_info"}, n))

\* The merge taken for a reset of the snapshot: every key is rewritten.
MergedKeysAll(e) == Keys

\* "self._device_data.update(message)": the keys of the received object.
MergedKeys(e) == {"topic", "payload"} \cup e.extra

\* _handle_message for one envelope: the first suffix that matches selects the
\* handler; then "self._device_data.update(message)" merges every key of the
\* raw envelope into _device_data and the entities are notified.  An exception
\* of the handler leaves _handle_message.
handle_envelope(st, e, n) ==
    LET t == e.topic
        p == e.payload
        h == IF family = "charger"
               THEN IF EndsWith(t, ChargerSuffixes[1]) THEN handle_device_info_response(st, p, n)
                    ELSE IF EndsWith(t, ChargerSuffixes[2])
                           THEN handle_charging_control_response(st, p, n)
                    ELSE IF EndsWith(t, ChargerSuffixes[3]) THEN handle_charging_event(st, p, n)
                    ELSE IF EndsWith(t, ChargerSuffixes[4])
                           THEN handle_device_status_message(st, p, n)
                    ELSE IF EndsWith(t, ChargerSuffixes[5])
                           THEN handle_charging_realtime_data(st, p, n)
                    ELSE st
               ELSE IF EndsWith(t, StorageSuffixes[1])
                           THEN storage_handle_device_info_response(st, p, n)
                    ELSE IF EndsWith(t, StorageSuffixes[2]) THEN handle_storage_mini_data(st, p, n)
                    ELSE st
        m == Store(h, MergedKeys(e), n)
    IN IF h.ok
         THEN Notify(IF "charging_status" \in e.extra THEN SetStatus(m, "charging") ELSE m)
         ELSE h

\* _handle_message for the items of a list, one after the other.
RECURSIVE handle_items(_, _, _)
handle_items(st, items, n) ==
    IF items = <<>> \/ ~st.ok THEN st
    ELSE handle_items(handle_envelope(st, Head(items), n), Tail(items), n)

\* _handle_message: a list is handled item by item, a dict as an envelope,
\* anything else is logged.
handle_message(st, f, n) ==
    CASE f.shape = "dict" -> handle_envelope(st, f.items[1], n)
      [] f.shape = "list" -> handle_items(st, f.items, n)
      [] OTHER -> st

\* What one frame does to the coordinator: json.loads, then the callback.
FrameHandled(f) ==
    LET r == handle_message(RouterState(device_data, data, storage_info_response,
                                        charging_status),
                            f, frames + 1)
        decoded == f.shape # "undecodable"
    IN /\ last_frame' = f
       /\ frames' = frames + 1
       /\ device_data' = r.dd
       /\ data' = r.pub
       /\ notified' = r.notes
       /\ storage_info_response' = r.sir
       /\ charging_status' = [dd |-> r.cs, pub |-> r.pcs]
       /\ info_fresh' = IF r.sir = storage_info_response THEN info_fresh ELSE InfoRequested
       /\ outcome' = IF ~decoded THEN "undecodable"
                     ELSE IF r.ok THEN "routed" ELSE "raised"
       /\ dropped' = IF decoded /\ r.ok THEN dropped ELSE dropped + 1
       /\ late_delivery' = (late_delivery \/ (quiet /\ decoded))

\* _listen_for_messages() as it would be without the inner except clauses of
\* lines 139-142: what the decoder or the callback raises reaches line 151,
\* the client is marked disconnected and the task ends.
ReceiveFrameUncaught(t) ==
    /\ pc[t] = "t_read" /\ Turn(t) /\ ~Cancelling(t)
    /\ socks[psock[t]] = "open"
    /\ frames < MaxFrames
    /\ \E f \in InboundFrames : FrameHandled(f)
    /\ IF outcome' = "routed"
         THEN UNCHANGED <<connected, pc, psock>>
         ELSE /\ connected' = FALSE
              /\ pc' = [pc EXCEPT ![t] = "done"]
              /\ psock' = [psock EXCEPT ![t] = 0]
    /\ UNCHANGED <<cfgVars, fnVars, ctVars, plugVars, topicVars, hasClient, websocket, listen_task, reconnect_attempts, socks,
                   lock, cctx, sctx, awaited, exc, cancelReq, polls, writes, sent, bgFails,
                   quiet, released>>

\* _listen_for_messages(), one frame, with the router followed.  Whatever the
\* decoder or the callback raises is logged and the loop goes on.
ReceiveFrame(t) ==
    /\ pc[t] = "t_read" /\ Turn(t) /\ ~Cancelling(t)
    /\ socks[psock[t]] = "open"
    /\ frames < MaxFrames
    /\ \E f \in InboundFrames : FrameHandled(f)
    /\ UNCHANGED <<cfgVars, fnVars, ctVars, plugVars, topicVars, hasClient, clientVars, socks, lock, procVars, polls, writes,
                   sent, bgFails, quiet, released>>

\* EwayStoragePowerNumber.async_set_native_value, where async_set_storage_power
\* has sent its command: the entity writes the new power into
\* coordinator.data["storage_info"] and notifies.
SetNativeValue ==
    /\ family = "storage" /\ LoopIdle
    /\ device_sn # "" /\ hasClient /\ connected
    /\ websocket # 0 /\ socks[websocket] = "open"
    /\ data' = [data EXCEPT !["storage_info"] = -1]
    /\ UNCHANGED <<cfgVars, fnVars, ctVars, plugVars, topicVars, hasClient, clientVars, socks, lock, procVars, storageVars,
                   ghostVars, device_data, frames, last_frame, outcome, notified,
                   dropped, charging_status>>

\* A session whose first refresh is over: connected, the read task reading.
ConnectedSession ==
    /\ \/ family = "charger" /\ device_id = "ABC" /\ device_sn = "123"
       \/ family = "storage" /\ device_id = "" /\ device_sn = "123"
    /\ CTInit
    /\ PlugInit
    /\ hasClient = TRUE
    /\ websocket = 1
    /\ listen_task = 1
    /\ connected = TRUE
    /\ reconnect_attempts = 0
    /\ socks = [s \in Sockets |-> IF s = 1 THEN "open" ELSE "unopened"]
    /\ lock = 0
    /\ pc = [p \in Procs |-> IF p = 1 THEN "t_read" ELSE IF p \in Tasks THEN "none" ELSE "idle"]
    /\ cctx = [p \in Procs |-> "none"]
    /\ sctx = [p \in Procs |-> "none"]
    /\ psock = [p \in Procs |-> IF p = 1 THEN 1 ELSE 0]
    /\ awaited = [p \in Procs |-> 0]
    /\ exc = [p \in Procs |-> "none"]
    /\ cancelReq = [t \in Tasks |-> FALSE]
    /\ storage_info_response = FALSE
    /\ polls = 0
    /\ info_fresh = FALSE
    /\ writes = 0
    /\ sent = [p \in Procs |-> <<>>]
    /\ bgFails = 0
    /\ quiet = FALSE
    /\ released = FALSE
    /\ late_delivery = FALSE
    /\ device_data = NoData
    /\ data = NoData
    /\ frames = 0
    /\ last_frame = NoFrame
    /\ outcome = "none"
    /\ notified = 0
    /\ dropped = 0
    /\ charging_status = NoChargingStatus

\* The connected session before any envelope was dispatched.
InitRouter == ConnectedSession /\ TopicInit /\ FnInit

(***************************************************************************)
(* The values _handle_device_status_message stores for an array payload     *)
(***************************************************************************)

\* A key that a dict does not have.
Absent == -1

\* device_status: the fields a batch of status changes sets.
NoStatus == [gun_status |-> Absent, charging_status |-> Absent, pile_status |-> Absent]

StatusField(id) ==
    CASE id = "gun-status" -> "gun_status"
      [] id = "charge-status" -> "charging_status"
      [] id = "pile-status" -> "pile_status"

\* int(value) if value else 0, for the values "0", "1", "2" and "".
IntOrZero(v) == CASE v = "1" -> 1 [] v = "2" -> 2 [] OTHER -> 0

\* The loop over the batch: each entry sets the field of its id, a later entry
\* for the same id replaces the earlier one.
RECURSIVE BatchStatus(_)
BatchStatus(acks) ==
    IF acks = <<>> THEN NoStatus
    ELSE LET last == acks[Len(acks)]
         IN [BatchStatus(SubSeq(acks, 1, Len(acks) - 1))
               EXCEPT ![StatusField(last.id)] = IntOrZero(last.value)]

\* dict.update.
UpdateStatus(old, new) ==
    [k \in DOMAIN old |-> IF new[k] # Absent THEN new[k] ELSE old[k]]

NoAck == [id |-> "", value |-> ""]

\* A handler that would read the three values of a batch by their position in
\* the array.
StatusArrayResultByPosition(prior, acks) ==
    IF IsStatusBatch(acks)
      THEN [applied |-> TRUE, kind |-> "batch",
            device_status |-> [gun_status |-> IntOrZero(acks[1].value),
                               charging_status |-> IntOrZero(acks[2].value),
                               pile_status |-> IntOrZero(acks[3].value)],
            device_status_responses |-> acks, first |-> NoAck]
      ELSE [applied |-> TRUE, kind |-> "single", device_status |-> prior,
            device_status_responses |-> <<>>, first |-> NoAck]

\* What the handler does with the array payload acks when device_status is
\* prior: a batch is merged into device_status and its entries, in the order
\* of the array, become device_status_responses; of any other array only the
\* first element is looked at.
StatusArrayResult(prior, acks) ==
    IF acks = <<>>
      THEN [applied |-> TRUE, kind |-> "none", device_status |-> prior,
            device_status_responses |-> <<>>, first |-> NoAck]
      ELSE IF IsStatusBatch(acks)
             THEN [applied |-> TRUE, kind |-> "batch",
                   device_status |-> UpdateStatus(prior, BatchStatus(acks)),
                   device_status_responses |-> acks, first |-> NoAck]
             ELSE [applied |-> TRUE, kind |-> "single", device_status |-> prior,
                   device_status_responses |-> <<>>, first |-> acks[1]]

\* The records of a /property/post array here.
StatusAcks == [id : StatusIds \cup {"network-way"}, value : {"0", "1"}]

RECURSIVE AckArrays(_)
AckArrays(n) ==
    IF n = 0 THEN {<<>>}
    ELSE LET shorter == AckArrays(n - 1)
         IN shorter \cup {Append(q, x) : q \in {r \in shorter : Len(r) = n - 1},
                                         x \in StatusAcks}

\* A /property/post envelope with an array payload reaches the handler.
HandleStatusArray ==
    /\ ~res.applied
    /\ res' = StatusArrayResult(arg.prior, arg.acks)
    /\ UNCHANGED <<cfgVars, ctVars, plugVars, topicVars, routerVars, hasClient, clientVars, socks, lock,
                   procVars, storageVars, ghostVars, arg>>

\* A connected charger session with such an envelope in hand, device_status
\* absent or left by an earlier message.
InitStatus ==
    /\ ConnectedSession /\ family = "charger"
    /\ TopicInit
    /\ arg \in [prior : {NoStatus, [gun_status |-> 0, charging_status |-> 2, pile_status |-> 0]},
                acks : AckArrays(MaxAcks)]
    /\ res = Unapplied

SpecStatus == InitStatus /\ [][HandleStatusArray]_vars

(***************************************************************************)
(* The device_info the /info/post handlers store for an object payload      *)
(***************************************************************************)

\* None.
Null == "null"

\* A field of a payload: absent, or present with a value.
NoField == [present |-> FALSE]
Field(v) == [present |-> TRUE, value |-> v]

\* payload.get(key) and payload.get(key, default).
Get(f, default) == IF f.present THEN f.value ELSE default

\* The object payloads of a device-info answer here: a version string and a
\* list of error codes, each there or not.  The charger reads them as
\* appFirmVer and errCode, the storage device reads the version as protocolVer.
InfoPayloads ==
    [ver : {NoField, Field("1.0"), Field("2.0")},
     errCode : {NoField, Field(<<>>), Field(<<"E1">>)}]

\* _device_data["device_info"] is absent.
NoDeviceInfo == [present |-> FALSE]

\* A handler that would keep the stored value of a field the payload lacks.
DeviceInfoMerged(fam, prior, payload) ==
    IF fam = "charger"
      THEN [present |-> TRUE,
            app_firmware_version |->
                Get(payload.ver, IF prior.present THEN prior.app_firmware_version ELSE Null),
            error_codes |-> Get(payload.errCode, <<>>)]
      ELSE [present |-> TRUE,
            protocol_version |->
                Get(payload.ver, IF prior.present THEN prior.protocol_version ELSE "")]

\* The device_info the handler of a family leaves in _device_data when it
\* finds prior there: EwayChargerCoordinator._handle_device_info_response for
\* a charger, EwayStorageCoordinator._handle_device_info_response for a
\* storage device.  Both build the dict from the payload and assign it.
DeviceInfoStored(fam, prior, payload) ==
    IF fam = "charger"
      THEN [present |-> TRUE,
            app_firmware_version |-> Get(payload.ver, Null),
            error_codes |-> Get(payload.errCode, <<>>)]
      ELSE [present |-> TRUE,
            protocol_version |-> Get(payload.ver, "")]

\* What earlier messages can have left as device_info.
PriorInfos ==
    {NoDeviceInfo} \cup {DeviceInfoStored(family, NoDeviceInfo, p) : p \in InfoPayloads}

\* The same /info/post envelope reaches two sessions.
HandleDeviceInfo ==
    /\ ~res.applied
    /\ res' = [applied |-> TRUE,
               first |-> DeviceInfoStored(family, arg.prior1, arg.payload),
               second |-> DeviceInfoStored(family, arg.prior2, arg.payload)]
    /\ UNCHANGED <<cfgVars, ctVars, plugVars, topicVars, routerVars, hasClient, clientVars, socks, lock,
                   procVars, storageVars, ghostVars, arg>>

\* Two connected sessions of the same family, each with its own device_info,
\* and an envelope with an object payload.
InitInfo ==
    /\ ConnectedSession
    /\ TopicInit
    /\ arg \in [prior1 : PriorInfos, prior2 : PriorInfos, payload : InfoPayloads]
    /\ res = Unapplied

SpecInfo == InitInfo /\ [][HandleDeviceInfo]_vars

(***************************************************************************)
(* The signal strengths of a /monitor2/post payload, stored and shown       *)
(***************************************************************************)

\* EwayChargerCoordinator._map_signal_strength, for a number: -1 stays -1,
\* any other value is returned as it is.
map_signal_strength(rssi) == IF rssi = -1 THEN -1 ELSE rssi

\* The real-time payloads here: the two signal strengths and the power, each
\* there or not.
RealtimePayloads ==
    [wifiRssi : {NoField} \cup {Field(v) : v \in -1..4},
     imt4gRssi : {NoField} \cup {Field(v) : v \in -1..4},
     power : {NoField, Field(-1), Field(7)}]

\* _handle_charging_realtime_data: what becomes _device_data["charging_realtime"].
RealtimeStored(payload) ==
    [imt4g_rssi |-> map_signal_strength(Get(payload.imt4gRssi, -1)),
     wifi_rssi |-> Get(payload.wifiRssi, 0),
     power |-> Get(payload.power, 0)]

\* A sensor that would show the stored value whatever it is.
native_value_raw(data_key, realtime) == Field(realtime[data_key])

\* EwayRealtimeDataSensor.native_value for the sensor reading data_key: None
\* for a signal strength of -1, the stored value otherwise.
native_value(data_key, realtime) ==
    IF data_key \in {"imt4g_rssi", "wifi_rssi"} /\ realtime[data_key] = -1
      THEN NoField
      ELSE Field(realtime[data_key])

\* A /monitor2/post envelope is handled and the sensors read the snapshot.
HandleRealtime ==
    /\ ~res.applied
    /\ LET stored == RealtimeStored(arg)
       IN res' = [applied |-> TRUE,
                  charging_realtime |-> stored,
                  shown |-> [k \in {"imt4g_rssi", "wifi_rssi", "power"} |->
                               native_value(k, stored)]]
    /\ UNCHANGED <<cfgVars, ctVars, plugVars, topicVars, routerVars, hasClient, clientVars, socks, lock,
                   procVars, storageVars, ghostVars, arg>>

\* A connected charger session with a real-time payload in hand.
InitRealtime ==
    /\ ConnectedSession /\ family = "charger"
    /\ TopicInit
    /\ arg \in RealtimePayloads
    /\ res = Unapplied

SpecRealtime == InitRealtime /\ [][HandleRealtime]_vars

(***************************************************************************)
(* nfc_enabled after a control acknowledgement                              *)
(***************************************************************************)

\* The acknowledgement records here.
NfcAcks == [id : {"nfc-enable", "network-way", "charg-switch"}, value : {"0", "1", "2"}]

\* Arrays of one or two of them.
NfcArrays == {<<a>> : a \in NfcAcks} \cup {<<a, b>> : a \in NfcAcks, b \in NfcAcks}

\* Handlers that would take "1" for enabled.
NfcEnabledNotInverted(suffix, prior, acks) ==
    IF acks # <<>> /\ acks[1].id = "nfc-enable" THEN Field(acks[1].value = "1") ELSE prior

\* _device_data["nfc_enabled"] after the array acks on a topic ending with
\* /function/post (_handle_charging_control_response) or with /property/post
\* (_handle_device_status_message), when it was prior before: both look at the
\* first element and store value == "0".
NfcEnabledStored(suffix, prior, acks) ==
    IF suffix = "function"
      THEN IF acks # <<>> /\ acks[1].id = "nfc-enable"
             THEN Field(acks[1].value = "0")
             ELSE prior
      ELSE IF acks # <<>> /\ ~IsStatusBatch(acks) /\ acks[1].id = "nfc-enable"
             THEN Field(acks[1].value = "0")
             ELSE prior

\* An acknowledgement array reaches the handler of its topic.
HandleNfcAck ==
    /\ ~res.applied
    /\ res' = [applied |-> TRUE,
               nfc_enabled |-> NfcEnabledStored(arg.suffix, arg.prior, arg.acks)]
    /\ UNCHANGED <<cfgVars, ctVars, plugVars, topicVars, routerVars, hasClient, clientVars, socks, lock,
                   procVars, storageVars, ghostVars, arg>>

\* A connected charger session, nfc_enabled absent or set, and an envelope
\* with an array payload on one of the two topics.
InitNfc ==
    /\ ConnectedSession /\ family = "charger"
    /\ TopicInit
    /\ arg \in [suffix : {"function", "property"},
                prior : {NoField, Field(TRUE), Field(FALSE)},
                acks : NfcArrays]
    /\ res = Unapplied

SpecNfc == InitNfc /\ [][HandleNfcAck]_vars

(***************************************************************************)
(* The request envelopes: built, encoded by json.dumps, decoded again       *)
(***************************************************************************)

\* A string is the sequence of its characters.
Quote == "\""
Backslash == "\\"

\* The characters of identifiers here: a letter, the slash and the two
\* characters JSON escapes.
IdChars == {"A", "/", Quote, Backslash}

RECURSIVE StringsUpTo(_)
StringsUpTo(n) ==
    IF n = 0 THEN {<<>>}
    ELSE LET shorter == StringsUpTo(n - 1)
         IN shorter \cup {Append(q, c) : q \in {r \in shorter : Len(r) = n - 1}, c \in IdChars}

Identifiers == StringsUpTo(MaxIdLen) \cup {<<"A", "B", "C">>, <<"1", "2", "3">>}

\* The verb of get_device_info() and of get_device_status().
RequestVerbs == {<<"i", "n", "f", "o">>, <<"p", "r", "o", "p", "e", "r", "t", "y">>}

\* f"/{self._device_id}/{self._device_sn}/info/get".
RequestTopic(id, sn, verb) ==
    <<"/">> \o id \o <<"/">> \o sn \o <<"/">> \o verb \o <<"/", "g", "e", "t">>

\* json.dumps of a string without escapes.
EncodeStringUnescaped(str) == <<Quote>> \o str \o <<Quote>>

\* json.dumps of a string: in quotes, a quote or a backslash preceded by a
\* backslash.
RECURSIVE EscapeChars(_)
EscapeChars(str) ==
    IF str = <<>> THEN <<>>
    ELSE (IF Head(str) \in {Quote, Backslash} THEN <<Backslash, Head(str)>> ELSE <<Head(str)>>)
         \o EscapeChars(Tail(str))

EncodeString(str) == <<Quote>> \o EscapeChars(str) \o <<Quote>>

TopicKey == <<"{", Quote, "t", "o", "p", "i", "c", Quote, ":", " ">>
PayloadKey == <<",", " ", Quote, "p", "a", "y", "l", "o", "a", "d", Quote, ":", " ">>
EmptyObject == <<"{", "}">>

\* json.dumps({"topic": topic, "payload": {}}).
EncodeEnvelope(t) ==
    TopicKey \o EncodeString(t) \o PayloadKey \o EmptyObject \o <<"}">>

\* json.loads of a string literal: the characters up to the closing quote,
\* with the escapes undone, and the text after it.
RECURSIVE ScanString(_, _)
ScanString(text, acc) ==
    IF text = <<>> THEN [ok |-> FALSE, value |-> acc, rest |-> <<>>]
    ELSE IF Head(text) = Quote THEN [ok |-> TRUE, value |-> acc, rest |-> Tail(text)]
    ELSE IF Head(text) = Backslash
           THEN IF Len(text) >= 2
                  THEN ScanString(SubSeq(text, 3, Len(text)), Append(acc, text[2]))
                  ELSE [ok |-> FALSE, value |-> acc, rest |-> <<>>]
    ELSE ScanString(Tail(text), Append(acc, Head(text)))

StartsWith(text, prefix) ==
    Len(text) >= Len(prefix) /\ SubSeq(text, 1, Len(prefix)) = prefix

\* json.loads of the text of an envelope with an empty object as payload.
DecodeEnvelope(text) ==
    LET bad == [ok |-> FALSE, topic |-> <<>>, payload |-> <<>>]
    IN IF ~StartsWith(text, TopicKey \o <<Quote>>) THEN bad
       ELSE LET str == ScanString(SubSeq(text, Len(TopicKey) + 2, Len(text)), <<>>)
            IN IF str.ok /\ str.rest = PayloadKey \o EmptyObject \o <<"}">>
                 THEN [ok |-> TRUE, topic |-> str.value, payload |-> EmptyObject]
                 ELSE bad

\* get_device_info() or get_device_status() on a connected client: ValueError
\* without a device id or a serial number, else the envelope is built,
\* encoded by send_message and written; the device decodes the text.
RequestSent ==
    /\ ~res.applied
    /\ res' = IF arg.device_id = <<>> \/ arg.device_sn = <<>>
                THEN [applied |-> TRUE, raised |-> TRUE, wire |-> <<>>,
                      decoded |-> DecodeEnvelope(<<>>)]
                ELSE LET wire == EncodeEnvelope(RequestTopic(arg.device_id, arg.device_sn,
                                                             arg.verb))
                     IN [applied |-> TRUE, raised |-> FALSE, wire |-> wire,
                         decoded |-> DecodeEnvelope(wire)]
    /\ UNCHANGED <<cfgVars, ctVars, plugVars, topicVars, routerVars, hasClient, clientVars, socks, lock,
                   procVars, storageVars, ghostVars, arg>>

\* A connected charger client with any device id and serial number.
InitRequest ==
    /\ ConnectedSession /\ family = "charger"
    /\ TopicInit
    /\ arg \in [device_id : Identifiers, device_sn : Identifiers, verb : RequestVerbs]
    /\ res = Unapplied

SpecRequest == InitRequest /\ [][RequestSent]_vars

(***************************************************************************)
(* The suffix tests of the routers, on topics of every form                 *)
(***************************************************************************)

\* The words a segment can be: those of the suffixes and two others.
Segments == {"info", "function", "event", "property", "monitor2", "storage", "mini", "post",
             "get", "sn"}

RECURSIVE SeqsUpTo(_)
SeqsUpTo(n) ==
    IF n = 0 THEN {<<>>}
    ELSE LET shorter == SeqsUpTo(n - 1)
         IN shorter \cup {Append(q, x) : q \in {r \in shorter : Len(r) = n - 1}, x \in Segments}

Topics == SeqsUpTo(MaxTopicLen)

AllSuffixes ==
    {ChargerSuffixes[i] : i \in DOMAIN ChargerSuffixes}
    \cup {StorageSuffixes[i] : i \in DOMAIN StorageSuffixes}

\* The if/elif chain of _handle_message: the first test that succeeds in the
\* order of the code.
Dispatch(sufs, t) ==
    IF \E i \in DOMAIN sufs : EndsWith(t, sufs[i])
      THEN CHOOSE i \in DOMAIN sufs :
               /\ EndsWith(t, sufs[i])
               /\ \A j \in DOMAIN sufs : EndsWith(t, sufs[j]) => i <= j
      ELSE 0

\* The same chain with its tests in the opposite order.
DispatchReversed(sufs, t) ==
    IF \E i \in DOMAIN sufs : EndsWith(t, sufs[i])
      THEN CHOOSE i \in DOMAIN sufs :
               /\ EndsWith(t, sufs[i])
               /\ \A j \in DOMAIN sufs : EndsWith(t, sufs[j]) => i >= j
      ELSE 0

\* The envelope in hand is dispatched by the routers.
RouteTopic ==
    /\ handler.charger = -1
    /\ matched' = {suf \in AllSuffixes : EndsWith(topic, suf)}
    /\ handler' = [charger |-> Dispatch(ChargerSuffixes, topic),
                   storage |-> Dispatch(StorageSuffixes, topic)]
    /\ UNCHANGED <<cfgVars, fnVars, ctVars, plugVars, routerVars, hasClient, clientVars, socks, lock, procVars,
                   storageVars, ghostVars, topic>>

\* A connected session with an envelope of any topic in hand.
InitTopics ==
    /\ ConnectedSession
    /\ FnInit
    /\ topic \in Topics
    /\ Undispatched

SpecTopics == InitTopics /\ [][RouteTopic]_vars

(***************************************************************************)
(* EwayCTCoordinator                                                       *)
(***************************************************************************)

\* No async_set_anti_backflow call has just returned.
NoSetCall == [called |-> FALSE]

\* The truth value of a dict: {} is false.
CTTruthy(d) == d.status # 0 \/ d.ab # "none"

\* The variables of the session and of the other coordinators.
ctOthers == <<cfgVars, fnVars, plugVars, topicVars, routerVars, hasClient, clientVars, socks, lock,
              procVars, storageVars, ghostVars>>

\* The scheduling of the configuration fetch.
ctFetchVars == <<ct_config_fetch_scheduled, ct_fetch, ct_fetches, ct_pending>>

\* "if not self._config_fetch_scheduled", taken whatever the flag says.
ScheduleConfigFetchAlways ==
    /\ ct_config_fetch_scheduled' = TRUE
    /\ ct_fetch' = "timer"
    /\ ct_pending' = ct_pending + 1
    /\ UNCHANGED ct_fetches

\* The end of the HTTP 200 branch: unless a configuration fetch is scheduled,
\* the flag is set and call_later(5.0, _schedule_config_fetch) is armed.
ScheduleConfigFetch ==
    IF ~ct_config_fetch_scheduled
      THEN /\ ct_config_fetch_scheduled' = TRUE
           /\ ct_fetch' = "timer"
           /\ ct_pending' = ct_pending + 1
           /\ UNCHANGED ct_fetches
      ELSE UNCHANGED ctFetchVars

\* DataUpdateCoordinator: what _async_update_data returns becomes data.
\* _async_update_data, HTTP 200: _device_data is rebuilt from the response,
\* "anti_backflow" taken from data since the status response has none, and a
\* copy is returned.
CTRefreshOK ==
    /\ ct_refreshes < MaxRefreshes
    /\ LET n == ct_refreshes + 1
           ab == IF ct_data.kind = "dict" /\ CTTruthy(ct_data) THEN ct_data.ab ELSE "none"
       IN /\ ct_refreshes' = n
          /\ ct_device_data' = [status |-> n, ab |-> ab]
          /\ ct_data' = [kind |-> "dict", status |-> n, ab |-> ab]
          /\ ct_latest' = [ct_latest EXCEPT !.status = n]
    /\ ct_alias' = FALSE
    /\ ct_connected' = TRUE
    /\ ct_connection_retries' = 0
    /\ ScheduleConfigFetch
    /\ ct_result' = "data"
    /\ ct_streak' = 0
    /\ ct_set' = NoSetCall
    /\ UNCHANGED <<ctOthers, ct_initial_connection_attempts>>

\* The non-2xx branch without its "raise UpdateFailed".
HttpErrorRaisesNever(retries) == FALSE

\* "if self._connection_retries >= 3: raise UpdateFailed(...)".
HttpErrorRaises(retries) == retries >= 3

\* _async_update_data, another HTTP status: below three retries
\* "self._device_data or {}" is returned, after them UpdateFailed is raised and
\* data stays.
CTRefreshHttpError ==
    /\ ct_refreshes < MaxRefreshes
    /\ ct_refreshes' = ct_refreshes + 1
    /\ ct_connection_retries' = ct_connection_retries + 1
    /\ ct_connected' = FALSE
    /\ IF HttpErrorRaises(ct_connection_retries')
         THEN /\ ct_result' = "UpdateFailed"
              /\ UNCHANGED <<ct_data, ct_alias>>
         ELSE /\ ct_result' = "stale"
              /\ IF CTTruthy(ct_device_data)
                   THEN /\ ct_data' = [kind |-> "dict", status |-> ct_device_data.status,
                                       ab |-> ct_device_data.ab]
                        /\ ct_alias' = TRUE
                   ELSE /\ ct_data' = [kind |-> "dict", status |-> 0, ab |-> "none"]
                        /\ ct_alias' = FALSE
    /\ ct_streak' = IF ct_connected THEN 1
                    ELSE IF ct_streak > 0 THEN ct_streak + 1 ELSE 0
    /\ ct_set' = NoSetCall
    /\ UNCHANGED <<ctOthers, ctFetchVars, ct_device_data, ct_initial_connection_attempts,
                   ct_latest>>

\* _async_update_data, aiohttp.ClientError or a timeout: UpdateFailed is raised
\* in every branch, data stays.  The branch is chosen by "not self._connected".
CTRefreshNetworkError ==
    /\ ct_refreshes < MaxRefreshes
    /\ ct_refreshes' = ct_refreshes + 1
    /\ IF ~ct_connected
         THEN /\ ct_initial_connection_attempts' = ct_initial_connection_attempts + 1
              /\ UNCHANGED <<ct_connected, ct_connection_retries>>
         ELSE /\ ct_connection_retries' = ct_connection_retries + 1
              /\ ct_connected' = (ct_connection_retries' < 3)
              /\ UNCHANGED ct_initial_connection_attempts
    /\ ct_result' = "UpdateFailed"
    /\ ct_streak' = 0
    /\ ct_set' = NoSetCall
    /\ UNCHANGED <<ctOthers, ctFetchVars, ct_device_data, ct_data, ct_alias, ct_latest>>

\* self.data["anti_backflow"] = v, with data made a dict when it is None.
CTWriteAntiBackflow(v) ==
    /\ ct_data' = [ct_data EXCEPT !.kind = "dict", !.ab = v]
    /\ ct_device_data' = IF ct_alias THEN [ct_device_data EXCEPT !.ab = v] ELSE ct_device_data
    /\ ct_latest' = [ct_latest EXCEPT !.ab = v]

\* What the device can answer to the SetConfig request: a status with a JSON
\* body, a status with a body that is not JSON, or no answer (status 0:
\* aiohttp.ClientError or a timeout).
SetResponses ==
    {[status |-> 200, json |-> TRUE], [status |-> 200, json |-> FALSE],
     [status |-> 204, json |-> TRUE], [status |-> 500, json |-> TRUE],
     [status |-> 0, json |-> FALSE]}

\* The status test widened to every 2xx status.
SetAcceptedAny2xx(r) == r.status \in 200..299 /\ r.json

\* "if response.status == 200: response_data = await response.json()": the
\* write is reached when the status is 200 and the body parses.
SetAccepted(r) == r.status = 200 /\ r.json

\* The value of data.get("anti_backflow") for a data that may be None.
CTAntiBackflow == IF ct_data.kind = "dict" THEN ct_data.ab ELSE "none"

\* async_set_anti_backflow(enable): on HTTP 200 with a JSON body the value is
\* written into data and True is returned; every other answer, and every
\* exception, returns False and writes nothing.
CTSetAntiBackflow ==
    /\ family = "ct"
    /\ \E enable \in {"on", "off"}, r \in SetResponses :
          /\ IF SetAccepted(r)
               THEN CTWriteAntiBackflow(enable)
               ELSE UNCHANGED <<ct_data, ct_device_data, ct_latest>>
          /\ ct_set' = [called |-> TRUE, enable |-> enable, response |-> r,
                        returned |-> SetAccepted(r), before |-> CTAntiBackflow]
    /\ UNCHANGED <<ctOthers, ctFetchVars, ct_alias, ct_connected, ct_connection_retries,
                   ct_initial_connection_attempts, ct_refreshes, ct_result, ct_streak>>

\* The call_later timer fires: _schedule_config_fetch creates the task, which
\* issues the GET of async_fetch_config_data and awaits the answer.
CTConfigTimer ==
    /\ ct_fetch = "timer"
    /\ ct_fetch' = "running"
    /\ ct_fetches' = ct_fetches + 1
    /\ ct_set' = NoSetCall
    /\ UNCHANGED <<ctOthers, ct_device_data, ct_data, ct_alias, ct_connected,
                   ct_connection_retries, ct_initial_connection_attempts, ct_refreshes,
                   ct_latest, ct_config_fetch_scheduled, ct_pending, ct_result, ct_streak>>

\* The flag reset placed after the request instead of in "finally": a fetch
\* that did not deliver the value leaves the flag set.
FlagAfterFetchOnSuccess(v) == v = "none"

\* "finally: self._config_fetch_scheduled = False", whatever the fetch gave.
FlagAfterFetch(v) == FALSE

\* _async_config_fetch_task ends: async_fetch_config_data got HTTP 200 with an
\* "anti_backflow" field (v is its value) or anything else ("none", nothing
\* is written); finally the scheduling flag is reset.
CTFetchConfig ==
    /\ ct_fetch = "running"
    /\ \E v \in {"on", "off", "none"} :
          /\ IF v = "none"
               THEN UNCHANGED <<ct_data, ct_device_data, ct_latest>>
               ELSE CTWriteAntiBackflow(v)
          /\ ct_config_fetch_scheduled' = FlagAfterFetch(v)
    /\ ct_fetch' = "idle"
    /\ ct_pending' = ct_pending - 1
    /\ ct_set' = NoSetCall
    /\ UNCHANGED <<ctOthers, ct_alias, ct_connected, ct_connection_retries,
                   ct_initial_connection_attempts, ct_refreshes, ct_fetches, ct_result,
                   ct_streak>>

\* EwayCTCoordinator.__init__.
InitCT ==
    /\ family = "ct"
    /\ device_id = ""
    /\ device_sn = "123"
    /\ SessionInit

NextCT ==
    \/ CTRefreshOK
    \/ CTRefreshHttpError
    \/ CTRefreshNetworkError
    \/ CTSetAntiBackflow
    \/ CTConfigTimer
    \/ CTFetchConfig

SpecCT == InitCT /\ [][NextCT]_vars

(***************************************************************************)
(* EwaySmartPlugCoordinator                                                *)
(***************************************************************************)

\* The variables of the session and of the other coordinators.
plugOthers == <<cfgVars, fnVars, ctVars, topicVars, routerVars, hasClient, clientVars, socks,
                lock, procVars, storageVars, ghostVars>>

\* The disconnect test moved one failure later.
PlugGivesUpLate(retries) == retries >= 4

\* "if self._connection_retries >= 3: self._connected = False".
PlugGivesUp(retries) == retries >= 3

\* _async_update_data, HTTP 200 with a JSON body that maps: the counter is
\* reset, the coordinator is connected and the mapped data is returned.
PlugRefreshOK ==
    /\ plug_refreshes < MaxRefreshes
    /\ plug_refreshes' = plug_refreshes + 1
    /\ plug_connection_retries' = 0
    /\ plug_connected' = TRUE
    /\ plug_result' = "data"
    /\ UNCHANGED plugOthers

\* _async_update_data raising UpdateFailed: a timeout, a network error, a
\* body that is not JSON or another HTTP status (raised inside the try block
\* and caught by "except Exception") happen before the reset of line 83; an
\* exception of _map_api_response or _update_device_registry happens after
\* it.  Either way the except clause counts one failure and disconnects at
\* the third.
PlugRefreshFailed ==
    /\ plug_refreshes < MaxRefreshes
    /\ plug_refreshes' = plug_refreshes + 1
    /\ \E reset \in BOOLEAN :
          /\ plug_connection_retries' = (IF reset THEN 0 ELSE plug_connection_retries) + 1
          /\ plug_connected' = IF PlugGivesUp(plug_connection_retries') THEN FALSE
                               ELSE (reset \/ plug_connected)
    /\ plug_result' = "UpdateFailed"
    /\ UNCHANGED plugOthers

\* The two HTTP coordinators of an installation, each refreshed by its own
\* scheduler.
NextHttp ==
    \/ CTRefreshOK
    \/ CTRefreshHttpError
    \/ CTRefreshNetworkError
    \/ PlugRefreshOK
    \/ PlugRefreshFailed

SpecHttp == InitCT /\ [][NextHttp]_vars

(***************************************************************************)
(* The control actions of the switch entities                              *)
(***************************************************************************)

\* EwayCTAntiBackflowSwitch._operation_cooldown, in seconds.
operation_cooldown == 2

ControlActions == {"start_charging", "stop_charging", "anti_backflow_on",
                   "anti_backflow_off", "plug_on", "plug_off"}

\* A switch that returns normally whatever the coordinator answered.
RaisesOnFailureNever(success) == FALSE

\* "if success: ... else: raise ValueError(...)".
RaisesOnFailure(success) == ~success

\* EwayChargerSwitch.async_turn_on/off: async_start_charging or
\* async_stop_charging checks the identity, async_send_command the connection,
\* send_message writes the frame or raises; the switch re-raises.
ChargerControl(c) ==
    IF c.device_id = "" \/ c.device_sn = ""
      THEN [applied |-> TRUE, raised |-> TRUE, accepted |-> FALSE, ignored |-> FALSE]
      ELSE IF ~c.connected \/ c.send_raises
             THEN [applied |-> TRUE, raised |-> TRUE, accepted |-> FALSE, ignored |-> FALSE]
             ELSE [applied |-> TRUE, raised |-> FALSE, accepted |-> TRUE, ignored |-> FALSE]

\* EwayCTAntiBackflowSwitch.async_turn_on/off: within the cooldown the call
\* logs a warning and returns; otherwise the time is recorded, the command is
\* sent and a False result raises ValueError.
CTSwitchControl(c) ==
    IF c.now - c.last_operation_time < operation_cooldown
      THEN [applied |-> TRUE, raised |-> FALSE, accepted |-> FALSE, ignored |-> TRUE]
      ELSE [applied |-> TRUE, raised |-> RaisesOnFailure(SetAccepted(c.response)),
            accepted |-> c.response.status = 200, ignored |-> FALSE]

\* EwaySmartPlugSwitch.async_turn_on/off: async_set_switch_state returns True
\* on HTTP 200 and False on anything else; a False result raises ValueError.
PlugControl(c) ==
    [applied |-> TRUE, raised |-> RaisesOnFailure(c.response.status = 200),
     accepted |-> c.response.status = 200, ignored |-> FALSE]

\* One control action, invoked by a user.
ControlInvoked ==
    /\ ~res.applied
    /\ res' = CASE arg.action \in {"start_charging", "stop_charging"} -> ChargerControl(arg)
                [] arg.action \in {"anti_backflow_on", "anti_backflow_off"} ->
                     CTSwitchControl(arg)
                [] OTHER -> PlugControl(arg)
    /\ UNCHANGED <<cfgVars, ctVars, plugVars, topicVars, routerVars, hasClient, clientVars, socks, lock,
                   procVars, storageVars, ghostVars, arg>>

\* The calls: the action, the charger's identity and connection, whether the
\* send raises, the device's HTTP answer, the clock and the time of the last
\* anti-backflow operation (0: none yet).
ControlCalls ==
    [action : ControlActions, device_id : {"", "id"}, device_sn : {"", "sn"},
     connected : BOOLEAN, send_raises : BOOLEAN, response : SetResponses,
     now : {10}, last_operation_time : {0, 7, 8, 9, 10}]

\* The fields of a call that its action reads; the others are fixed.
ControlRelevant(c) ==
    CASE c.action \in {"start_charging", "stop_charging"} ->
           c.response.status = 200 /\ c.response.json /\ c.last_operation_time = 0
      [] c.action \in {"anti_backflow_on", "anti_backflow_off"} ->
           c.device_id = "" /\ c.device_sn = "" /\ ~c.connected /\ ~c.send_raises
      [] OTHER ->
           /\ c.device_id = "" /\ c.device_sn = "" /\ ~c.connected /\ ~c.send_raises
           /\ c.last_operation_time = 0

InitControl ==
    /\ ConnectedSession
    /\ TopicInit
    /\ arg \in {c \in ControlCalls : ControlRelevant(c)}
    /\ res = Unapplied

SpecControl == InitControl /\ [][ControlInvoked]_vars

\* The client's connection handling, the read tasks and the device.
SessionNext ==
    \/ \E p \in Procs :
        \/ ConnectOpened(p)
        \/ ConnectFailed(p)
        \/ DisconnectTaskDone(p)
        \/ DisconnectClosed(p)
        \/ PingEnter(p)
        \/ PingDone(p)
    \/ \E t \in Tasks :
        \/ ListenStart(t)
        \/ ListenFrame(t)
        \/ ListenClosedOK(t)
        \/ ListenClosedError(t)
        \/ ReconnectWake(t)
        \/ ReconnectReturn(t)
        \/ ListenCancelled(t)
    \/ \E s \in Sockets : PeerClose(s)
    \/ RefreshStart
    \/ RefreshReturn
    \/ ShutdownStart
    \/ ShutdownReturn

\* The client's sending.
SendNext ==
    \E p \in Procs :
        \/ SendMessageEnter(p)
        \/ SendMessageDone(p)
        \/ ConnectAfterInfo(p)
        \/ ConnectAfterStatus(p)

\* A charger: scheduled refresh, user command, shutdown.
Next ==
    \/ SessionNext
    \/ SendNext
    \/ ChargerConnectReturn
    \/ ChargerPingReturn
    \/ ChargerDisconnectReturn
    \/ ChargerRequest
    \/ ChargerRequestReturn
    \/ CommandStart
    \/ ChargerCommandSent
    \/ CommandReturn

Spec == Init /\ [][Next]_vars

\* EwayChargerCoordinator.__init__ with host and port only.
InitShutdown ==
    /\ family = "charger"
    /\ device_id = ""
    /\ device_sn = ""
    /\ SessionInit

\* A charger without identity, so that nothing is sent: scheduled refresh and
\* shutdown, with a device that accepts every connection, a third one
\* included, sends no frame and closes sockets.
NextShutdown ==
    \/ \E p \in Procs :
        \/ ConnectOpenedUpTo(p, SocketSlots)
        \/ DisconnectTaskDone(p)
        \/ DisconnectClosed(p)
        \/ PingEnter(p)
        \/ PingDone(p)
    \/ \E t \in Tasks :
        \/ ListenStart(t)
        \/ ListenClosedOK(t)
        \/ ListenClosedError(t)
        \/ ReconnectWake(t)
        \/ ReconnectReturn(t)
        \/ ListenCancelled(t)
    \/ \E s \in Sockets : PeerClose(s)
    \/ RefreshStart
    \/ RefreshReturn
    \/ ShutdownStart
    \/ ShutdownReturn
    \/ ChargerConnectReturn
    \/ ChargerPingReturn
    \/ ChargerDisconnectReturn
    \/ ChargerRequest

SpecShutdown == InitShutdown /\ [][NextShutdown]_vars

\* A storage device without a serial number: scheduled refresh and shutdown.
NextStorage ==
    \/ SessionNext
    \/ StorageConnectReturn
    \/ StorageInfoRequest
    \/ StoragePingReturn

SpecStorage == InitStorage /\ [][NextStorage]_vars

\* A storage device with a serial number: the refresh requests the device
\* info, and user commands are sent.
NextStorageInfo ==
    \/ NextStorage
    \/ SendNext
    \/ \E p \in {Refresh, Command} :
        \/ StorageCommandConnectReturn(p)
        \/ StorageCommandSent(p)
    \/ StoragePoll
    \/ CommandStart
    \/ CommandReturn

SpecStorageInfo == InitStorageInfo /\ [][NextStorageInfo]_vars

\* A storage device with a serial number and its scheduled refresh alone: the
\* device accepts every connection, sends frames and closes sockets.
NextInfoRequest ==
    \/ \E p \in Procs :
        \/ ConnectOpened(p)
        \/ PingEnter(p)
        \/ PingDone(p)
        \/ SendMessageEnter(p)
        \/ SendMessageDone(p)
    \/ \E t \in Tasks :
        \/ ListenStart(t)
        \/ ListenFrame(t)
        \/ ListenClosedOK(t)
        \/ ListenClosedError(t)
        \/ ReconnectWake(t)
        \/ ReconnectReturn(t)
    \/ \E s \in Sockets : PeerClose(s)
    \/ RefreshStart
    \/ RefreshReturn
    \/ StorageConnectReturn
    \/ StorageInfoRequest
    \/ StorageCommandSent(Refresh)
    \/ StoragePoll
    \/ StoragePingReturn

SpecInfoRequest == InitStorageInfo /\ [][NextInfoRequest]_vars

\* A connected session receiving frames until the peer closes the socket, and
\* the power entity of a storage device.
NextRouter ==
    \/ \E t \in Tasks :
        \/ ReceiveFrame(t)
        \/ ListenClosedOK(t)
        \/ ListenClosedError(t)
    \/ \E s \in Sockets : PeerClose(s)
    \/ SetNativeValue

SpecRouter == InitRouter /\ [][NextRouter]_vars

(***************************************************************************)
(* Properties of the WebSocket session                                     *)
(***************************************************************************)

OpenSockets == {s \in Sockets : socks[s] = "open"}

\* The read tasks suspended in a read of an open socket.
ReadingTasks ==
    {t \in Tasks : pc[t] = "t_read" /\ ~cancelReq[t] /\ socks[psock[t]] = "open"}

\* The processes suspended in websockets.connect.
Connecting == {p \in Procs : pc[p] = "c_open"}

\* C1: at every moment the session has at most one open socket and at most
\* one read task reading from an open socket.
C1_OneConnection ==
    /\ Cardinality(OpenSockets) <= 1
    /\ Cardinality(ReadingTasks) <= 1

\* C2: the reconnect counter never exceeds max_reconnect_attempts, and the
\* read tasks make at most that many failed reconnect attempts in a row (with
\* no successful connect() in between).
C2_BoundedReconnects ==
    /\ reconnect_attempts <= max_reconnect_attempts
    /\ bgFails <= max_reconnect_attempts

\* C3: no two connect attempts of the session are in progress at the same
\* time.
C3_SequentialAttempts == Cardinality(Connecting) <= 1

\* C4: when a read task stops reading because the peer closed the socket,
\* cleanly or not, the session is disconnected at that moment and, if
\* attempts remain, the task is waiting to reconnect.
C4_ClosedMeansDisconnected ==
    [][\A t \in Tasks :
         (/\ pc[t] = "t_read" /\ ~cancelReq[t]
          /\ socks[psock[t]] \in {"closed_ok", "closed_err"}
          /\ pc'[t] # "t_read")
         => (/\ ~connected'
             /\ (reconnect_attempts < max_reconnect_attempts => pc'[t] = "t_sleep"))]_vars

\* C5, as stated: whenever connect() has returned normally, the session is
\* connected, the counter is 0 and the read task it references is running.
C5_ConnectedOnReturn ==
    \A p \in Procs :
        pc[p] = "c_ok" =>
            /\ connected
            /\ reconnect_attempts = 0
            /\ listen_task # 0
            /\ pc[listen_task] \in {"t_new", "t_read"}

\* C5, amended: at the moment connect() has opened the socket, before it sends
\* its initial requests, the session is connected, the counter is 0, and a new
\* read task for the newly opened socket has been created and is the one the
\* session references.
C5_ConnectedOnOpen ==
    [][\A p \in Procs :
         (pc[p] = "c_open" /\ pc'[p] \in {"sm_call", "c_ok"})
         => (/\ connected'
             /\ reconnect_attempts' = 0
             /\ websocket' # 0 /\ websocket' # websocket
             /\ socks[websocket'] = "unopened" /\ socks'[websocket'] = "open"
             /\ listen_task' = websocket'
             /\ pc[listen_task'] = "none" /\ pc'[listen_task'] = "t_new")]_vars

\* A reconnect attempt of a read task, made with a non-zero counter, has just
\* opened a socket.
C5_Witness ==
    \E t \in Tasks :
        /\ pc[t] \in {"sm_call", "c_ok"} /\ cctx[t] = "t_reconnect" /\ psock[t] = 0
        /\ sent[t] = <<>> /\ sctx[t] \in {"c_info", "none"}
        /\ connected /\ reconnect_attempts = 0
        /\ listen_task = websocket /\ listen_task # 0
        /\ pc[listen_task] = "t_new"

\* C6: when opening the socket fails, connect() raises to its caller, the
\* session is disconnected at that moment, and the call has started no read
\* task (the task referenced and the set of tasks are as before).
C6_OpenFailureRaises ==
    [][\A p \in Procs :
         (/\ pc[p] = "c_open" /\ pc'[p] # "c_open"
          /\ ~Cancelling(p) /\ socks' = socks)
         => (/\ pc'[p] = "c_raise"
             /\ exc'[p] \in OpenFailures
             /\ ~connected'
             /\ listen_task' = listen_task
             /\ websocket' = websocket
             /\ \A t \in Tasks : pc[t] = "none" => pc'[t] = "none")]_vars

\* A connect() has failed to open its socket while another socket of the
\* session was open.
C6_Witness ==
    \E p \in Procs :
        /\ pc[p] = "c_raise" /\ exc[p] \in OpenFailures
        /\ ~connected /\ OpenSockets # {}

\* The initial requests connect() may have issued by the time it returns, with
\* a complete identity: both in order, or those before the first failure.
InitialRequestLogs == {<<"info", "status">>, <<"info", "fail">>, <<"fail">>}

\* C7: when connect() returns normally it has, with a complete identity, sent
\* the info request and then the status request (up to the first send that
\* failed), and with an incomplete identity sent nothing; a connect() that
\* raises has sent nothing; and a failed initial request leaves the connected
\* flag as it is and connect() returns normally.
C7_InitialRequests ==
    [][\A p \in Procs :
         /\ pc'[p] = "c_ok" =>
              IF IdentityComplete THEN sent'[p] \in InitialRequestLogs
                                  ELSE sent'[p] = <<>>
         /\ pc'[p] = "c_raise" => sent'[p] = <<>>
         /\ (pc[p] = "sm_raise" /\ sctx[p] \in InitialSites /\ pc'[p] # "sm_raise"
             /\ ~Cancelling(p))
            => (pc'[p] = "c_ok" /\ connected' = connected)]_vars

\* A connect() has returned after sending both of its requests, in order.
C7_Witness ==
    \E p \in Procs : pc[p] = "c_ok" /\ sent[p] = <<"info", "status">>

\* C8: whenever disconnect() returns, the session is disconnected and
\* references neither a socket nor a read task.
C8_DisconnectLeavesNothing ==
    \A p \in Procs :
        pc[p] = "d_ret" => (~connected /\ websocket = 0 /\ listen_task = 0)

\* C9: once disconnect() has returned, and until a socket is opened again, no
\* inbound frame is handed to the router callback.
C9_SilentAfterDisconnect == ~late_delivery

\* C10: send_message() called while the session is not connected raises the
\* not-connected error; no frame is written and the session and its sockets
\* are as before.
C10_SendWhileDisconnected ==
    [][\A p \in Procs :
         (pc[p] = "sm_call" /\ NotConnected /\ pc'[p] # "sm_call")
         => (/\ pc'[p] = "sm_raise"
             /\ exc'[p] = "ConnectionError"
             /\ writes' = writes
             /\ clientVars' = clientVars
             /\ socks' = socks)]_vars

\* A send_message() has raised the not-connected error while the session still
\* referenced a socket.
C10_Witness ==
    \E p \in Procs :
        /\ pc[p] = "sm_raise" /\ exc[p] = "ConnectionError"
        /\ ~connected /\ websocket # 0

\* C11: ping() never raises.  Called on a session that is not connected it
\* returns False at once, without touching a socket; otherwise it returns True
\* or False, True only when the socket it pinged is open (a pong can arrive),
\* so a ping that cannot be sent returns False.  The session is unchanged.
C11_PingReturnsBoolean ==
    [][\A p \in Procs :
         /\ (pc[p] = "r_ping" /\ hasClient /\ NotConnected /\ pc'[p] # "r_ping")
            => (pc'[p] = "ping_false" /\ psock'[p] = psock[p])
         /\ (pc[p] = "ping_wait" /\ pc'[p] # "ping_wait")
            => (/\ pc'[p] \in {"ping_true", "ping_false"}
                /\ exc'[p] = exc[p]
                /\ (pc'[p] = "ping_true" => socks[psock[p]] = "open")
                /\ clientVars' = clientVars /\ socks' = socks)]_vars

\* A ping() has returned False on a session that is marked connected and whose
\* socket the peer has closed.
C11_Witness ==
    \E p \in Procs :
        /\ pc[p] = "ping_false"
        /\ connected /\ websocket # 0 /\ socks[websocket] = "closed_ok"

\* C13: with an empty device id or serial number, a start or stop command
\* fails with ValueError before it takes the lock, and the refresh's info
\* request fails inside get_device_info() (the refresh logs it and returns); in
\* both cases no frame is written and the session and its sockets are as before.
C13_IncompleteIdentityFailsFirst ==
    [][/\ (/\ family = "charger" /\ ~IdentityComplete
           /\ pc[Command] = "idle" /\ pc'[Command] # "idle")
          => (/\ pc'[Command] = "cmd_raised" /\ exc'[Command] = "ValueError"
              /\ lock' = lock /\ writes' = writes
              /\ clientVars' = clientVars /\ socks' = socks)
       /\ (/\ ~IdentityComplete /\ connected
           /\ pc[Refresh] = "r_request" /\ pc'[Refresh] # "r_request")
          => (/\ pc'[Refresh] = "r_ok"
              /\ writes' = writes
              /\ clientVars' = clientVars /\ socks' = socks)]_vars

\* A start or stop command has failed with ValueError on a connected session
\* whose lock is free.
C13_Witness ==
    /\ pc[Command] = "cmd_raised" /\ exc[Command] = "ValueError"
    /\ connected /\ lock = 0 /\ websocket # 0 /\ socks[websocket] = "open"

\* The processes that are inside connect(), ping() or send_message().
InClientCall ==
    {p \in Procs : pc[p] \in {"c_open", "sm_call", "sm_wait", "ping_wait"}}

\* C14: while a coordinator operation holds the connection lock, no other
\* process is inside a connect, a ping or a send of the same client.
C14_LockSerializes == lock # 0 => InClientCall \subseteq {lock}

\* C12: a frame that cannot be decoded, or whose callback raises, is dropped:
\* the read task stays in its loop on the same socket and the client's state,
\* the connected flag included, is as before, so that a later valid frame is
\* routed (the witness).
C12_BadFrameDropped ==
    [][\A t \in Tasks :
         (pc[t] = "t_read" /\ frames' = frames + 1 /\ outcome' \in {"undecodable", "raised"})
         => /\ pc'[t] = "t_read" /\ psock'[t] = psock[t]
            /\ clientVars' = clientVars /\ socks' = socks]_vars

C12_Witness ==
    /\ dropped >= 1 /\ outcome = "routed" /\ notified >= 1
    /\ pc[1] = "t_read" /\ connected /\ socks[psock[1]] = "open"


\* A frame that is one device-info envelope.
IsDeviceInfo(f) == f.shape = "dict" /\ EndsWith(f.items[1].topic, <<"info", "post">>)

\* C15: a frame handled without an exception notifies the observers of the
\* snapshot exactly once, and twice when it is a device-info message, whatever
\* the coordinator and whether the frame is an envelope or a list.
C15_OneNotificationPerFrame ==
    outcome = "routed" => notified = (IF IsDeviceInfo(last_frame) THEN 2 ELSE 1)

\* C16: nothing of the snapshot is ever lost: the measurements it holds are
\* those of the most recent status response and its anti-backflow value is the
\* one written last, whatever refreshes came after.
C16_SubObjectsPersist ==
    /\ ct_latest.status # 0 => (ct_data.kind = "dict" /\ ct_data.status = ct_latest.status)
    /\ ct_latest.ab # "none" => (ct_data.kind = "dict" /\ ct_data.ab = ct_latest.ab)

\* C17: only the coordinator writes the snapshot: no value of coordinator.data
\* was put there by an entity.
C17_OnlySessionWrites == \A k \in Keys : data[k] # -1

\* C18: a topic ends with at most one of the suffixes the routers test, so an
\* envelope goes to at most one handler and the branch taken is the same when
\* the tests are made in the opposite order.
C18_SuffixesExclusive ==
    handler.charger # -1 =>
        /\ Cardinality(matched) <= 1
        /\ handler.charger = DispatchReversed(ChargerSuffixes, topic)
        /\ handler.storage = DispatchReversed(StorageSuffixes, topic)

C18_Witness ==
    /\ topic = <<"event", "storage", "mini", "post">>
    /\ matched = {<<"event", "storage", "mini", "post">>}
    /\ handler = [charger |-> 0, storage |-> 2]

\* A payload all of whose fields can be parsed.
Parseable(p) ==
    /\ \A i \in DOMAIN p.acks : Numeric(p.acks[i].value)
    /\ p.pileStatus \in {"none", "2"}

\* C19: an envelope whose topic ends with a suffix the router handles and whose
\* payload is an object, or an array of acknowledgement records, with fields
\* that can all be parsed, is handled without an exception.
C19_BothShapesHandled ==
    (/\ last_frame.shape = "dict"
     /\ Dispatch(IF family = "charger" THEN ChargerSuffixes ELSE StorageSuffixes,
                 last_frame.items[1].topic) # 0
     /\ Parseable(last_frame.items[1].payload)
     /\ last_frame.items[1].payload.shape = "array" => last_frame.items[1].payload.acks # <<>>)
    => outcome = "routed"

\* C20: a charger envelope of a control acknowledgement or of a status message
\* with a field that cannot be parsed is still handled to the end: the raw
\* envelope is stored and the observers are notified.
C20_FieldErrorsContained ==
    (/\ family = "charger"
     /\ last_frame.shape = "dict"
     /\ Dispatch(ChargerSuffixes, last_frame.items[1].topic) \in {2, 4}
     /\ ~Parseable(last_frame.items[1].payload))
    => (outcome = "routed" /\ notified >= 1 /\ device_data["topic"] = frames)

\* C21: an array payload of /property/post is handled as a batch of status
\* changes exactly when it has three entries whose ids are gun-status,
\* charge-status and pile-status, each once; any other array is handled as one
\* acknowledgement, its first element.
C21_BatchExactlyTheSet ==
    res.applied =>
        /\ (res.kind = "batch")
           <=> (Len(arg.acks) = 3 /\ {arg.acks[i].id : i \in 1..3} = StatusIds)
        /\ (res.kind # "batch" /\ arg.acks # <<>>)
           => (res.kind = "single" /\ res.first = arg.acks[1])

\* The arrays with the entries of acks in another order.
Reordered(acks) ==
    {[i \in 1..Len(acks) |-> acks[f[i]]] : f \in Permutations(1..Len(acks))}

\* C22: for a batch of the three status ids, the array in any other order
\* gives the same device_status and the same device_status_responses; for
\* gun-status "1", charge-status "0", pile-status "1" and no earlier
\* device_status the result is gun_status 1, charging_status 0, pile_status 1.
C22_OrderInsensitive ==
    (res.applied /\ Len(arg.acks) = 3 /\ {arg.acks[i].id : i \in 1..3} = StatusIds) =>
        /\ \A q \in Reordered(arg.acks) : StatusArrayResult(arg.prior, q) = res
        /\ (/\ arg.prior = NoStatus
            /\ \A i \in 1..3 :
                 arg.acks[i].value = (IF arg.acks[i].id = "charge-status" THEN "0" ELSE "1"))
           => res.device_status = [gun_status |-> 1, charging_status |-> 0, pile_status |-> 1]

\* C22, amended: for a batch of the three status ids, the array in any other
\* order gives the same device_status, and device_status_responses holds the
\* entries in the order of the array; for gun-status "1", charge-status "0",
\* pile-status "1" and no earlier device_status the result is gun_status 1,
\* charging_status 0, pile_status 1.
C22_StatusOrderInsensitive ==
    (res.applied /\ Len(arg.acks) = 3 /\ {arg.acks[i].id : i \in 1..3} = StatusIds) =>
        /\ \A q \in Reordered(arg.acks) :
             LET r == StatusArrayResult(arg.prior, q)
             IN r.device_status = res.device_status /\ r.device_status_responses = q
        /\ (/\ arg.prior = NoStatus
            /\ \A i \in 1..3 :
                 arg.acks[i].value = (IF arg.acks[i].id = "charge-status" THEN "0" ELSE "1"))
           => res.device_status = [gun_status |-> 1, charging_status |-> 0, pile_status |-> 1]

C22_Witness ==
    /\ res.applied /\ res.kind = "batch"
    /\ arg.prior = NoStatus
    /\ arg.acks = <<[id |-> "pile-status", value |-> "1"], [id |-> "gun-status", value |-> "1"],
                    [id |-> "charge-status", value |-> "0"]>>
    /\ res.device_status = [gun_status |-> 1, charging_status |-> 0, pile_status |-> 1]

C24_SentinelNotStored ==
    res.applied =>
        /\ arg.wifiRssi = Field(-1) => res.charging_realtime.wifi_rssi # -1
        /\ arg.imt4gRssi = Field(-1) => res.charging_realtime.imt4g_rssi # -1

\* C24, amended: a real-time payload whose wifiRssi or imt4gRssi is -1 leaves
\* -1 as that signal strength in the snapshot, and the sensor of that signal
\* strength shows no value; any other signal strength is stored and shown as
\* it came.
C24_SentinelShownAsNone ==
    res.applied =>
        /\ arg.wifiRssi.present =>
             /\ res.charging_realtime.wifi_rssi = arg.wifiRssi.value
             /\ res.shown["wifi_rssi"] =
                  (IF arg.wifiRssi.value = -1 THEN NoField ELSE arg.wifiRssi)
        /\ arg.imt4gRssi.present =>
             /\ res.charging_realtime.imt4g_rssi = arg.imt4gRssi.value
             /\ res.shown["imt4g_rssi"] =
                  (IF arg.imt4gRssi.value = -1 THEN NoField ELSE arg.imt4gRssi)

C24_Witness ==
    /\ res.applied
    /\ arg.wifiRssi = Field(-1) /\ arg.imt4gRssi = Field(3)
    /\ res.charging_realtime.wifi_rssi = -1
    /\ res.shown["wifi_rssi"] = NoField /\ res.shown["imt4g_rssi"] = Field(3)

\* C25: an acknowledgement with id nfc-enable, on /function/post or on
\* /property/post, sets nfc_enabled to True when its value is "0" and to False
\* when its value is "1".
C25_NfcInverted ==
    (res.applied /\ arg.acks[1].id = "nfc-enable") =>
        /\ arg.acks[1].value = "0" => res.nfc_enabled = Field(TRUE)
        /\ arg.acks[1].value = "1" => res.nfc_enabled = Field(FALSE)

C25_Witness ==
    /\ res.applied
    /\ arg.suffix = "property" /\ arg.prior = Field(FALSE)
    /\ arg.acks = <<[id |-> "nfc-enable", value |-> "0"]>>
    /\ res.nfc_enabled = Field(TRUE)

\* C26: the envelope of get_device_info() for device id "ABC" and serial
\* number "123", encoded and decoded again, has the topic /ABC/123/info/get
\* and an empty object as payload; for any identifiers and either request the
\* decoded topic is "/" + id + "/" + serial number + "/" + verb + "/get".
C26_RequestRoundTrip ==
    (res.applied /\ ~res.raised) =>
        /\ res.decoded.ok
        /\ res.decoded.topic = RequestTopic(arg.device_id, arg.device_sn, arg.verb)
        /\ res.decoded.payload = EmptyObject
        /\ (/\ arg.device_id = <<"A", "B", "C">> /\ arg.device_sn = <<"1", "2", "3">>
            /\ arg.verb = <<"i", "n", "f", "o">>)
           => res.decoded.topic = <<"/", "A", "B", "C", "/", "1", "2", "3", "/",
                                     "i", "n", "f", "o", "/", "g", "e", "t">>

C26_Witness ==
    /\ res.applied /\ ~res.raised
    /\ arg.device_id = <<"A", "B", "C">> /\ arg.device_sn = <<"1", "2", "3">>
    /\ arg.verb = <<"i", "n", "f", "o">>
    /\ res.decoded.ok /\ res.decoded.payload = EmptyObject
    /\ Len(res.decoded.topic) = 17


\* C27: from the connected state, three consecutive refreshes answered with a
\* non-2xx status leave the session disconnected, and the refresh after them,
\* failing too, raises UpdateFailed.
C27_ThreeFailuresThenRaise ==
    [][/\ ct_streak' >= 3 => ~ct_connected'
       /\ (ct_streak >= 3 /\ ct_refreshes' = ct_refreshes + 1 /\ ct_result' # "data")
            => ct_result' = "UpdateFailed"]_vars

C27_Witness ==
    /\ ct_streak = 4
    /\ ct_result = "UpdateFailed"
    /\ ~ct_connected

\* C28: once a refresh has succeeded, no later failure is counted by the
\* initial-attempt counter.
C28_InitialPathOnlyBeforeSuccess ==
    [][ct_latest.status # 0
         => ct_initial_connection_attempts' = ct_initial_connection_attempts]_vars

\* C29: the initial-attempt counter and the connection-retry counter never
\* exceed 3.
C29_CountersBounded ==
    /\ ct_initial_connection_attempts <= 3
    /\ ct_connection_retries <= 3

\* C30 as stated: no more than one configuration request is ever issued.
C30_FetchOnce == ct_fetches <= 1

\* C30: at most one configuration fetch is pending at a time.  The flag is set
\* exactly while one is scheduled or running; a successful refresh arms one
\* when none is pending and changes nothing when one is; a request is issued
\* only by the timer of such a scheduling.
C30_OneFetchPending ==
    [][/\ ct_config_fetch_scheduled' <=> ct_fetch' # "idle"
       /\ (ct_refreshes' # ct_refreshes /\ ct_result' = "data")
            => IF ct_fetch = "idle"
                 THEN ct_fetch' = "timer" /\ ct_fetches' = ct_fetches
                 ELSE UNCHANGED ctFetchVars
       /\ (ct_fetch = "idle" /\ ct_fetch' # "idle")
            => (ct_refreshes' # ct_refreshes /\ ct_result' = "data")
       /\ ct_fetches' # ct_fetches
            => ct_fetch = "timer" /\ ct_fetch' = "running" /\ ct_fetches' = ct_fetches + 1]_vars

C30_Witness ==
    /\ ct_fetches = 2
    /\ ct_fetch = "running"
    /\ ct_result = "data"

\* C31: at most one configuration fetch is scheduled or running; a refresh
\* that succeeds while one is pending queues no other; when the fetch task
\* ends the scheduled flag is clear, whether the fetch delivered the value
\* or not.
C31_SingleFetchDebounced ==
    [][/\ ct_pending' <= 1
       /\ (ct_pending >= 1 /\ ct_refreshes' # ct_refreshes) => ct_pending' = ct_pending
       /\ (ct_fetch = "running" /\ ct_fetch' # "running")
            => ~ct_config_fetch_scheduled' /\ ct_pending' = 0]_vars

\* Two refreshes succeeded and only one fetch was issued: the second refresh
\* came while the fetch was pending; the fetch has ended without a value.
C31_Witness ==
    /\ ct_refreshes = 2
    /\ ct_latest.status = 2
    /\ ct_fetches = 1
    /\ ct_fetch = "idle"
    /\ ct_latest.ab = "none"
    /\ ~ct_config_fetch_scheduled

\* C32 as stated: every 2xx answer with a body that parses makes the call
\* return True with the field equal to v; every other answer makes it return
\* False with the field unchanged.
C32_OptimisticWriteAny2xx ==
    ct_set.called =>
       IF ct_set.response.status \in 200..299 /\ ct_set.response.json
         THEN ct_set.returned /\ CTAntiBackflow = ct_set.enable
         ELSE ct_set.response.status \notin 200..299
                => ~ct_set.returned /\ CTAntiBackflow = ct_set.before

\* C32: an HTTP 200 answer with a JSON body makes the call return True with
\* the snapshot's anti_backflow field equal to v; every other answer (another
\* status, be it 2xx, a body that does not parse, a network error or a
\* timeout) makes it return False with the field unchanged.
C32_OptimisticWrite ==
    ct_set.called =>
       IF ct_set.response.status = 200 /\ ct_set.response.json
         THEN ct_set.returned /\ CTAntiBackflow = ct_set.enable
         ELSE ~ct_set.returned /\ CTAntiBackflow = ct_set.before

\* Both cases: a call that changed the value and returned True, seen from a
\* state where an earlier value was there.
C32_Witness ==
    /\ ct_set.called
    /\ ct_set.returned
    /\ ct_set.before = "off"
    /\ ct_set.enable = "on"
    /\ CTAntiBackflow = "on"

\* C33: a scheduled refresh that fails ends with UpdateFailed: it never
\* leaves _async_update_data with another exception.
C33_RefreshRaisesOnlyUpdateFailed == pc[Refresh] # "r_raised"

\* C34 as stated: a control action returns normally only when its command
\* was accepted by the device.
C34_ControlFailureRaises ==
    res.applied /\ "accepted" \in DOMAIN res => res.raised \/ res.accepted

\* C34: a control action whose command was not accepted raises, except an
\* anti-backflow action invoked less than 2 s after the previous one, which
\* is ignored: it sends nothing and returns normally.
C34_ControlFailureRaisesOutsideCooldown ==
    res.applied /\ "accepted" \in DOMAIN res =>
       IF /\ arg.action \in {"anti_backflow_on", "anti_backflow_off"}
          /\ arg.now - arg.last_operation_time < 2
         THEN ~res.raised /\ ~res.accepted
         ELSE res.raised \/ res.accepted

\* An anti-backflow action whose command the device refused, outside the
\* cooldown: it raised.
C34_Witness ==
    /\ res.applied /\ "accepted" \in DOMAIN res
    /\ arg.action = "anti_backflow_on"
    /\ arg.now - arg.last_operation_time >= 2
    /\ arg.response.status = 500
    /\ res.raised

\* A read task's _handle_reconnect() gets its socket opened in this step.
BackgroundOpened ==
    \E t \in Tasks : /\ pc[t] = "c_open" /\ cctx[t] = "t_reconnect"
                     /\ pc'[t] # "c_open"
                     /\ NumSockets < SocketSlots
                     /\ socks'[NumSockets + 1] = "open"

\* C35: once disconnect() has returned and left the session disconnected,
\* with no socket and no read task referenced, and as long as no caller
\* outside the client has invoked connect(), no background reconnect opens a
\* socket.
C35_NoBackgroundReopen ==
    [][(/\ released /\ ~connected /\ websocket = 0 /\ listen_task = 0
        /\ \A p \in Procs \ Tasks : pc[p] # "c_open")
         => ~BackgroundOpened]_vars


\* C36: once anti_backflow has a value, written by a set command that
\* succeeded or by a configuration fetch, the snapshot shows that value after
\* every later refresh, a refresh answered with a non-2xx status included,
\* until the next such write.
C36_AntiBackflowKept == ct_latest.ab # "none" => CTAntiBackflow = ct_latest.ab


\* The wait loop of async_get_storage_info() ends in this step.
InfoCallReturns == pc[Refresh] = "g_poll" /\ pc'[Refresh] # "g_poll"

\* C37: async_get_storage_info() returns a stored answer only when the answer
\* arrived after the call began, never a device-info message that was stored
\* before the request; without an answer it returns None after PollLimit
\* polls.
C37_AnswerFollowsRequest ==
    [][InfoCallReturns =>
         IF storage_info_response THEN info_fresh ELSE polls + 1 = PollLimit]_vars


\* C38: whenever the CT coordinator or the smart plug coordinator reports
\* connected, its count of consecutive failures is below 3, and after a
\* refresh that succeeded the count is 0 and the coordinator is connected.
C38_ConnectedBelowLimit ==
    /\ ct_connected => ct_connection_retries < 3
    /\ plug_connected => plug_connection_retries < 3
    /\ ct_result = "data" => (ct_connected /\ ct_connection_retries = 0)
    /\ plug_result = "data" => (plug_connected /\ plug_connection_retries = 0)

\* Both coordinators are connected with two failures counted, and the smart
\* plug has lost the connection and found it again before.
C38_Witness ==
    /\ ct_connected /\ ct_connection_retries = 2
    /\ plug_connected /\ plug_connection_retries = 2
    /\ plug_refreshes = MaxRefreshes


\* The keys of the raw envelope in the snapshot.
RawKeys == {"topic", "payload"}

\* An envelope, a JSON object made of a topic and a payload, whose topic ends
\* with none of the suffixes the router of the family tests.
Unrouted(f) ==
    /\ f.shape = "dict"
    /\ f.items[1].extra = {}
    /\ Dispatch(IF family = "charger" THEN ChargerSuffixes ELSE StorageSuffixes,
                f.items[1].topic) = 0

ChargeStatuses == {-1, 0, 1, 2}

\* is_on without the test for "stopped" and "completed".
is_on_without_stopped(status, charge_status) ==
    IF status = "charging" THEN TRUE ELSE charge_status = 1

\* EwayChargerSwitch.is_on: "charging_status" of coordinator.data decides when
\* it is one of the three known values, else charge_status of device_info.
is_on(status, charge_status) ==
    IF status = "charging" THEN TRUE
    ELSE IF status \in {"stopped", "completed"} THEN FALSE
    ELSE charge_status = 1

\* The charging switch reports off, whatever device_info holds.
SwitchOff == \A c \in ChargeStatuses : ~is_on(charging_status.pub, c)

\* A frame made of /info/post and /property/post envelopes, each a JSON object
\* made of a topic and a payload.
InfoOrProperty(f) ==
    /\ f.shape \in {"dict", "list"}
    /\ f.items # <<>>
    /\ \A i \in DOMAIN f.items :
          /\ f.items[i].extra = {}
          /\ Dispatch(ChargerSuffixes, f.items[i].topic) \in {1, 4}

====
